---- MODULE Spec2Model ----
(***************************************************************************)
(* Model of the encryption worker of gears.slurm.it.                       *)
(*                                                                         *)
(* The worker (src/unnamed/part_000, the three-provider revision of        *)
(* src/worker.js) holds one active provider and its type tag, validates    *)
(* every inbound message, switches providers on request and dispatches     *)
(* encrypt/decrypt as promises whose reactions post the response.          *)
(*                                                                         *)
(* JavaScript values are records [t |-> typeof-like tag, ...]; display     *)
(* strings are sequences of words (concatenation is \o, String.includes    *)
(* is contiguous-subsequence search); file names are sequences of          *)
(* characters.  The glyph U+274C that starts the user messages is the      *)
(* word Cross.                                                             *)
(***************************************************************************)
EXTENDS Integers, Sequences, FiniteSets, Bags

VARIABLES
    loaderPc,             \* position of the rage-wasm loader IIFE
    rageWasm,             \* part_000:36
    rageWasmReady,        \* part_000:37
    provider,             \* part_000:59  the active provider instance
    currentProviderType,  \* part_000:60
    inflight,             \* pending promises of provider.encrypt/decrypt
    inbox,                \* messages posted by the page, not yet delivered
    instances,            \* number of provider objects constructed so far
    last,                 \* record of the task the worker ran most recently
    names,                \* a file name and the names derived from it
    normalized,           \* results of normalizeError collected so far
    codec,                \* one payload taken through encrypt and decrypt
    swState,              \* lifecycle state of the service worker
    caches,               \* sw.js: the CacheStorage, cache name -> entries
    installEvent,         \* sw.js:66-90   progress of the install handler
    activateEvent,        \* sw.js:158-173 progress of the activate handler
    skipWaiting,          \* sw.js:176-181 the last message, and whether
                          \*               its handler called skipWaiting()
    fetchEvent,           \* sw.js:92-156  progress of the fetch handler
    cacheWrite            \* sw.js:129-135 the cache write started by a fetch

\* the worker and its page
worker == <<loaderPc, rageWasm, rageWasmReady, provider, currentProviderType,
            inflight, inbox, instances, last>>

\* records of the pure functions applied on their own
\* the service worker of the page
service == <<swState, caches, installEvent, activateEvent, skipWaiting,
             fetchEvent, cacheWrite>>

scratch == <<names, normalized, codec, service>>

vars == <<loaderPc, rageWasm, rageWasmReady, provider, currentProviderType,
          inflight, inbox, instances, last, names, normalized, codec,
          swState, caches, installEvent, activateEvent, skipWaiting,
          fetchEvent, cacheWrite>>

(***************************************************************************)
(* Bounds                                                                  *)
(***************************************************************************)
\* number of encrypt/decrypt promises pending at once
MaxInFlight == 2
\* number of provider objects constructed in one run of the worker
MaxInstances == 4
\* number of characters of a file name whose derived names are followed
MaxNameLen == 3
\* number of normalizeError results held side by side
MaxNormalized == 2
\* number of bytes of the payloads enumerated in full
MaxPayloadLen == 2

(***************************************************************************)
(* JavaScript values                                                       *)
(***************************************************************************)
Str(s) == [t |-> "string", s |-> s]
Undefined == [t |-> "undefined", s |-> ""]
JsNull == [t |-> "object", s |-> ""]
Num42 == [t |-> "number", s |-> "42"]

\* a file name: a string of characters, or a value that is no string
Name(chars) == [t |-> "string", chars |-> chars]
NoName == [t |-> "undefined", chars |-> <<>>]

\* a password: only its type and length are read by the router
Pw(n) == [t |-> "string", len |-> n]
NoPw == [t |-> "undefined", len |-> 0]

\* JavaScript truthiness of the values above
Truthy(v) ==
    CASE v.t = "undefined" -> FALSE
      [] v.t = "object"    -> FALSE        \* null
      [] v.t = "string"    -> v.s # ""
      [] OTHER             -> TRUE

(***************************************************************************)
(* Text: sequences of words                                                *)
(***************************************************************************)
Cross == "[U+274C]"

\* String.prototype.toLowerCase on one word
LowerWord(w) ==
    CASE w = "Wrong"    -> "wrong"
      [] w = "Password" -> "password"
      [] w = "Invalid"  -> "invalid"
      [] w = "Bad"      -> "bad"
      [] w = "HMAC"     -> "hmac"
      [] w = "Data"     -> "data"
      [] w = "Decryption" -> "decryption"
      [] w = "Unknown"  -> "unknown"
      [] w = "Age"      -> "age"
      [] OTHER          -> w

toLowerCase(text) == [i \in 1..Len(text) |-> LowerWord(text[i])]

\* String.prototype.includes: needle occurs as a contiguous run of hay
includes(hay, needle) ==
    \E i \in 0..(Len(hay) - Len(needle)) :
        /\ Len(needle) <= Len(hay)
        /\ \A j \in 1..Len(needle) : hay[i + j] = needle[j]

(***************************************************************************)
(* Providers (src/providers/JsAesCryptWorkerProvider.js, src/worker.js)    *)
(***************************************************************************)
ProviderTypes == {"jsAesCrypt", "webCrypto", "age"}

\* decimal rendering of the password bounds interpolated into messages
NumWord(n) == IF n = 1024 THEN "1024" ELSE "null"

\* aesCrypt.info.maxPassLen of the bundled legacy codec (0: not reported)
aesCryptMaxPassLen == 0

\* provider.getInfo(): the fields the worker reads
getInfo(p) ==
    CASE p.type = "jsAesCrypt" ->
            [name |-> "jsAesCrypt",
             maxPasswordLength |->
                 IF aesCryptMaxPassLen # 0 THEN aesCryptMaxPassLen ELSE 1024,
             fileExtension |-> <<".", "a", "e", "s">>]
      [] p.type = "webCrypto" ->
            [name |-> "WebCrypto",
             maxPasswordLength |-> 1024,
             fileExtension |-> <<".", "e", "n", "c">>]
      [] p.type = "age" ->
            [name |-> "Age",
             maxPasswordLength |-> 0,      \* null: no limit
             fileExtension |-> <<".", "a", "g", "e">>]

\* a raw failure: an Error object, a bare string, or null/undefined
Err(text) == [t |-> "Error", message |-> text]
ErrString(text) == [t |-> "string", message |-> text]
ErrNull == [t |-> "undefined", message |-> <<>>]
\* an object that has no message property
ErrObject == [t |-> "object", message |-> <<>>]

\* typeof error === 'string' ? error : (error?.message || 'Unknown error')
errorMessageOf(error) ==
    IF error.t = "string" THEN error.message
    ELSE IF error.t = "Error" /\ error.message # <<>> THEN error.message
    ELSE <<"Unknown", "error">>

\* _enhanceError(error, operation): new Error(`${operation} failed: ${msg}`)
enhanceError(error, operation) ==
    Err(<<operation, "failed", ":">> \o errorMessageOf(error))

Normalized(code, message, userMessage) ==
    [code |-> code, message |-> message, userMessage |-> userMessage]

UnexpectedMsg == <<Cross, "An", "unexpected", "error", "occurred">>
IncorrectPasswordMsg ==
    <<Cross, "Incorrect", "password.", "Please", "check", "your", "password",
      "and", "try", "again.">>
TooLongMsg(p) ==
    <<Cross, "Password", "too", "long", "(max",
      NumWord(getInfo(p).maxPasswordLength), "characters)">>
CorruptedMsg ==
    <<Cross, "File", "appears", "to", "be", "corrupted", "or", "tampered",
      "with">>

\* JsAesCryptWorkerProvider.normalizeError
JsAesNormalizeError(p, error) ==
    LET errorMessage == errorMessageOf(error)
        lowerError == toLowerCase(errorMessage)
    IN  IF includes(lowerError, <<"wrong", "password">>)
           \/ includes(lowerError, <<"bad", "hmac">>)
        THEN Normalized("WRONG_PASSWORD", errorMessage, IncorrectPasswordMsg)
        ELSE IF includes(lowerError, <<"password", "is", "too", "long">>)
        THEN Normalized("PASSWORD_TOO_LONG", errorMessage, TooLongMsg(p))
        ELSE IF includes(lowerError, <<"corrupted">>)
                \/ includes(lowerError, <<"tampered">>)
        THEN Normalized("CORRUPTED_DATA", errorMessage, CorruptedMsg)
        ELSE IF includes(lowerError, <<"not", "an", "aes", "crypt">>)
                \/ includes(lowerError, <<"invalid", "format">>)
        THEN Normalized("INVALID_FORMAT", errorMessage,
                 <<Cross, "This", "file", "is", "not", "a", "valid", "AES",
                   "encrypted", "file">>)
        ELSE Normalized("UNKNOWN_ERROR", errorMessage, UnexpectedMsg)

\* WebCryptoWorkerProvider.normalizeError
WebCryptoNormalizeError(p, error) ==
    LET errorMessage == errorMessageOf(error)
        lowerError == toLowerCase(errorMessage)
    IN  IF includes(lowerError, <<"wrong", "password">>)
           \/ includes(lowerError, <<"corrupted", "data">>)
        THEN Normalized("WRONG_PASSWORD", errorMessage,
                 <<Cross, "Incorrect", "password", "or", "corrupted", "file">>)
        ELSE IF includes(lowerError, <<"password", "is", "required">>)
        THEN Normalized("PASSWORD_TOO_LONG", errorMessage,
                 <<Cross, "Password", "is", "required">>)
        ELSE IF includes(lowerError, <<"password", "too", "long">>)
        THEN Normalized("PASSWORD_TOO_LONG", errorMessage, TooLongMsg(p))
        ELSE IF includes(lowerError, <<"invalid", "format">>)
                \/ includes(lowerError, <<"file", "too", "short">>)
        THEN Normalized("INVALID_FORMAT", errorMessage,
                 <<Cross, "Invalid", "encrypted", "file", "format">>)
        ELSE IF includes(lowerError, <<"encrypt", "failed">>)
        THEN Normalized("ENCRYPTION_FAILED", errorMessage,
                 <<Cross, "Encryption", "failed">>)
        ELSE IF includes(lowerError, <<"decrypt", "failed">>)
        THEN Normalized("DECRYPTION_FAILED", errorMessage,
                 <<Cross, "Decryption", "failed">>)
        ELSE Normalized("UNKNOWN_ERROR", errorMessage, UnexpectedMsg)

\* AgeWorkerProvider.normalizeError
AgeNormalizeError(p, error) ==
    LET errorMessage == errorMessageOf(error)
        lowerError == toLowerCase(errorMessage)
    IN  IF includes(lowerError, <<"wrong", "password">>)
           \/ includes(lowerError, <<"incorrect", "passphrase">>)
           \/ includes(lowerError, <<"decryption", "failed">>)
           \/ includes(lowerError, <<"failed", "to", "decrypt">>)
        THEN Normalized("WRONG_PASSWORD", errorMessage, IncorrectPasswordMsg)
        ELSE IF includes(lowerError, <<"invalid">>)
                \/ includes(lowerError, <<"format">>)
                \/ includes(lowerError,
                       <<"not", "an", "age", "encrypted", "file">>)
                \/ includes(lowerError, <<"malformed">>)
        THEN Normalized("INVALID_FORMAT", errorMessage,
                 <<Cross, "This", "file", "is", "not", "a", "valid", "age",
                   "encrypted", "file">>)
        ELSE IF includes(lowerError, <<"corrupted">>)
                \/ includes(lowerError, <<"tampered">>)
        THEN Normalized("CORRUPTED_DATA", errorMessage, CorruptedMsg)
        ELSE IF includes(lowerError, <<"password", "is", "required">>)
        THEN Normalized("PASSWORD_REQUIRED", errorMessage,
                 <<Cross, "Password", "is", "required">>)
        ELSE Normalized("UNKNOWN_ERROR", errorMessage, UnexpectedMsg)

\* normalizeError whose default branch returns the diagnostic as the user
\* message
normalizeErrorRawDefault(p, error) ==
    LET n == CASE p.type = "jsAesCrypt" -> JsAesNormalizeError(p, error)
               [] p.type = "webCrypto"  -> WebCryptoNormalizeError(p, error)
               [] p.type = "age"        -> AgeNormalizeError(p, error)
    IN  IF n.code = "UNKNOWN_ERROR"
        THEN Normalized("UNKNOWN_ERROR", n.message, n.message)
        ELSE n

\* provider.normalizeError(error), dispatched on the instance's class
normalizeError(p, error) ==
    CASE p.type = "jsAesCrypt" -> JsAesNormalizeError(p, error)
      [] p.type = "webCrypto"  -> WebCryptoNormalizeError(p, error)
      [] p.type = "age"        -> AgeNormalizeError(p, error)

(***************************************************************************)
(* Messages and envelopes                                                  *)
(***************************************************************************)
\* e.data as the handler destructures it: data[0] is action; for INIT
\* data[1] is providerType; for ENCRYPT/DECRYPT data[1..4] are file,
\* password, fileName, providerType.  Elements past length are undefined.
Message(isArray, length, action, file, password, fileName, providerType) ==
    [isArray |-> isArray, length |-> length, action |-> action,
     file |-> file, password |-> password, fileName |-> fileName,
     providerType |-> providerType]

Blob == [t |-> "Blob"]
NoFile == [t |-> "undefined"]
NotABlob == [t |-> "string"]

NotAnArray == Message(FALSE, 0, Undefined, NoFile, NoPw, NoName, Undefined)
EmptyArray == Message(TRUE, 0, Undefined, NoFile, NoPw, NoName, Undefined)
ActionOnly(a) == Message(TRUE, 1, a, NoFile, NoPw, NoName, Undefined)
InitMsg(pt) ==
    Message(TRUE, IF pt = Undefined THEN 1 ELSE 2, Str("INIT"), NoFile, NoPw,
            NoName, pt)
OpMsg(a, file, password, fileName, pt) ==
    Message(TRUE, IF pt = Undefined THEN 4 ELSE 5, Str(a), file, password,
            fileName, pt)

NoMsg == Message(FALSE, 0, Undefined, NoFile, NoPw, NoName, Str("(no message)"))

ErrorEnv(text, action) == [tag |-> "ERROR", text |-> text, action |-> action]
SuccessEnv(action, result, fileName) ==
    [tag |-> action, result |-> result, fileName |-> fileName]
InitSuccessEnv(providerType) ==
    [tag |-> "INIT_SUCCESS", providerType |-> providerType]
InitErrorEnv(text) == [tag |-> "INIT_ERROR", text |-> text]

(***************************************************************************)
(* File names                                                              *)
(***************************************************************************)
\* the traversal guard without its backslash test
hasTraversalNoBackslash(chars) ==
    \/ includes(chars, <<".", ".">>)
    \/ includes(chars, <<"/">>)

\* fileName.includes('..') || fileName.includes('/') || fileName.includes('\\')
hasTraversal(chars) ==
    \/ includes(chars, <<".", ".">>)
    \/ includes(chars, <<"/">>)
    \/ includes(chars, <<"\\">>)

\* split/slice/join that keeps the separator of the dropped piece
stripExtensionKeepDot(chars) ==
    IF \A i \in 1..Len(chars) : chars[i] # "." THEN <<>>
    ELSE LET lastDot == CHOOSE i \in 1..Len(chars) :
                            /\ chars[i] = "."
                            /\ \A j \in (i + 1)..Len(chars) : chars[j] # "."
         IN  SubSeq(chars, 1, lastDot)

\* indices of the '.' characters of a name
Dots(chars) == {i \in 1..Len(chars) : chars[i] = "."}

\* fileName.split('.').slice(0, -1).join('.'): everything before the last
\* '.', and the empty string when there is no '.' (split gives one piece,
\* slice(0, -1) drops it)
stripExtension(chars) ==
    IF Dots(chars) = {} THEN <<>>
    ELSE LET lastDot == CHOOSE i \in Dots(chars) : \A j \in Dots(chars) : j <= i
         IN  SubSeq(chars, 1, lastDot - 1)

(***************************************************************************)
(* Provider registry                                                       *)
(***************************************************************************)
Instance(type, id) == [type |-> type, id |-> id]
NoInstance == Instance("(none)", 0)

NoOp == [action |-> "(none)", fileName |-> <<>>, on |-> NoInstance, n |-> 0]

NoTask ==
    [task |-> "none", msg |-> NoMsg, prev |-> NoInstance, prevType |-> "",
     out |-> <<>>, calls |-> <<>>, op |-> NoOp, threw |-> FALSE]

\* no file name is being followed
NoNames ==
    [stage |-> "none", original |-> <<>>, encrypted |-> <<>>,
     decrypted |-> <<>>]

\* the outcome of a provider's encrypt or decrypt: the bytes it resolves
\* with or the error it rejects with, and the steps it took
Resolved(value, calls) ==
    [ok |-> TRUE, value |-> value, error |-> ErrNull, calls |-> calls]
Rejected(error, calls) ==
    [ok |-> FALSE, value |-> <<>>, error |-> error, calls |-> calls]
NoResult == [ok |-> FALSE, value |-> <<>>, error |-> ErrNull, calls |-> <<>>]

\* a password whose characters matter: id stands for the characters
Password(id, len) == [t |-> "string", len |-> len, id |-> id]

\* no payload is being followed
NoCodec ==
    [stage |-> "none", type |-> "", payload |-> <<>>,
     password |-> Password("", 0), enc |-> NoResult, input |-> <<>>,
     intact |-> FALSE, attempt |-> Password("", 0), dec |-> NoResult]

\* sw.js:4
CACHE_NAME == "slurm-cache-2026-01-16T03-09-10"

\* caches left by the versions deployed earlier (part_001:4, part_002:4)
StaleCaches ==
    {"slurm-cache-2025-11-23T15-34-45", "slurm-cache-2025-11-23T22-49-27"}

NoInstall ==
    [pc |-> "idle", pending |-> {}, added |-> {}, waitUntil |-> "none"]
NoActivate ==
    [pc |-> "idle", keys |-> {}, deleting |-> {}, claim |-> "none",
     rejected |-> FALSE, waitUntil |-> "none"]

\* event.data of a message to the service worker
Data(t, type) == [t |-> t, type |-> type]
NoData == Data("undefined", "undefined")

\* a URL, a response and a cache entry
Url(k, i, search) == [k |-> k, i |-> i, search |-> search]
NoUrl == Url("", 0, "")
Response(status, type, body, url) ==
    [status |-> status, type |-> type, body |-> body, url |-> url]
NoResponse == Response(0, "", "(none)", NoUrl)
Entry(request, response) == [request |-> request, response |-> response]

\* a fetch request as the handler reads it
Request(url, method, accept) ==
    [url |-> url, method |-> method, accept |-> accept]
\* request.headers.get(name): the header's value, or null
Header(words) == [t |-> "string", v |-> words]
NoHeader == [t |-> "null", v |-> <<>>]
NoRequest == Request(NoUrl, "", NoHeader)

NoFetch ==
    [pc |-> "idle", request |-> NoRequest, matched |-> FALSE,
     fetches |-> 0, puts |-> 0, respondWith |-> "none",
     response |-> NoResponse, network |-> NoResponse, failed |-> FALSE]
NoWrite == [pc |-> "idle", request |-> NoRequest, response |-> NoResponse]

\* no service worker is being followed
NoService ==
    /\ swState = "none"
    /\ caches = [n \in {} |-> {}]
    /\ installEvent = NoInstall
    /\ activateEvent = NoActivate
    /\ skipWaiting = [data |-> NoData, called |-> FALSE]
    /\ fetchEvent = NoFetch
    /\ cacheWrite = NoWrite

\* identity of the next object built by `new`: its serial number
FreshId == instances

AgeNotLoadedText ==
    <<"Age", "encryption", "library", "not", "loaded", "yet.", "Please",
      "wait", "a", "moment", "and", "try", "again.">>

Switched(p, type) ==
    [threw |-> FALSE, error |-> ErrNull, provider |-> p,
     currentProviderType |-> type]
Thrown(error) ==
    [threw |-> TRUE, error |-> error, provider |-> provider,
     currentProviderType |-> currentProviderType]

\* setProvider with the type tag written before the readiness check
setProviderTagFirst(providerType) ==
    IF providerType = currentProviderType
    THEN Switched(provider, currentProviderType)
    ELSE IF providerType = "jsAesCrypt"
    THEN Switched(Instance("jsAesCrypt", FreshId), "jsAesCrypt")
    ELSE IF providerType = "webCrypto"
    THEN Switched(Instance("webCrypto", FreshId), "webCrypto")
    ELSE IF providerType = "age"
    THEN IF ~rageWasmReady \/ rageWasm = "null"
         THEN [threw |-> TRUE, error |-> Err(AgeNotLoadedText),
               provider |-> provider, currentProviderType |-> "age"]
         ELSE Switched(Instance("age", FreshId), "age")
    ELSE Thrown(Err(<<"Unknown", "provider", "type", ":", providerType>>))

\* setProvider that builds the age provider without testing rageWasmReady
setProviderNoPoll(providerType) ==
    IF providerType = currentProviderType
    THEN Switched(provider, currentProviderType)
    ELSE IF providerType = "jsAesCrypt"
    THEN Switched(Instance("jsAesCrypt", FreshId), "jsAesCrypt")
    ELSE IF providerType = "webCrypto"
    THEN Switched(Instance("webCrypto", FreshId), "webCrypto")
    ELSE IF providerType = "age"
    THEN Switched(Instance("age", FreshId), "age")
    ELSE Thrown(Err(<<"Unknown", "provider", "type", ":", providerType>>))

\* setProvider without the early return for the current type
setProviderAlwaysConstruct(providerType) ==
    IF providerType = "jsAesCrypt"
    THEN Switched(Instance("jsAesCrypt", FreshId), "jsAesCrypt")
    ELSE IF providerType = "webCrypto"
    THEN Switched(Instance("webCrypto", FreshId), "webCrypto")
    ELSE IF providerType = "age"
    THEN IF ~rageWasmReady \/ rageWasm = "null"
         THEN Thrown(Err(AgeNotLoadedText))
         ELSE Switched(Instance("age", FreshId), "age")
    ELSE Thrown(Err(<<"Unknown", "provider", "type", ":", providerType>>))

\* setProvider whose webCrypto branch writes the tag and keeps the instance
setProviderKeepInstance(providerType) ==
    IF providerType = currentProviderType
    THEN Switched(provider, currentProviderType)
    ELSE IF providerType = "jsAesCrypt"
    THEN Switched(Instance("jsAesCrypt", FreshId), "jsAesCrypt")
    ELSE IF providerType = "webCrypto"
    THEN Switched(provider, "webCrypto")
    ELSE IF providerType = "age"
    THEN IF ~rageWasmReady \/ rageWasm = "null"
         THEN Thrown(Err(AgeNotLoadedText))
         ELSE Switched(Instance("age", FreshId), "age")
    ELSE Thrown(Err(<<"Unknown", "provider", "type", ":", providerType>>))

\* setProvider(providerType): the registry after the call, or the throw
setProvider(providerType) ==
    IF providerType = currentProviderType
    THEN Switched(provider, currentProviderType)
    ELSE IF providerType = "jsAesCrypt"
    THEN Switched(Instance("jsAesCrypt", FreshId), "jsAesCrypt")
    ELSE IF providerType = "webCrypto"
    THEN Switched(Instance("webCrypto", FreshId), "webCrypto")
    ELSE IF providerType = "age"
    THEN IF ~rageWasmReady \/ rageWasm = "null"
         THEN Thrown(Err(AgeNotLoadedText))
         ELSE Switched(Instance("age", FreshId), "age")
    ELSE Thrown(Err(<<"Unknown", "provider", "type", ":", providerType>>))

(***************************************************************************)
(* onmessage                                                               *)
(***************************************************************************)
\* what one run of the handler did: the registry it leaves, the envelopes
\* it posted, the promise it started (NoOp: none) and the provider methods
\* it called
Outcome(p, type, out, op, calls, threw) ==
    [provider |-> p, currentProviderType |-> type, out |-> out, op |-> op,
     calls |-> calls, threw |-> threw]

Reply(env) ==
    Outcome(provider, currentProviderType, <<env>>, NoOp, <<>>, FALSE)

Call(p, method) == [on |-> p, method |-> method]

\* part_000:114 and part_000:154: the enumerated identifiers
isProviderType(v) == v.t = "string" /\ v.s \in {"jsAesCrypt", "webCrypto", "age"}

\* INIT posting its success before the switch is attempted
onInitSuccessFirst(m) ==
    LET providerType ==
            IF Truthy(m.providerType) THEN m.providerType
            ELSE Str("jsAesCrypt")
    IN  IF ~isProviderType(providerType)
        THEN Reply(InitErrorEnv(<<"Invalid", "provider", "type">>))
        ELSE LET sp == setProvider(providerType.s)
             IN  IF sp.threw
                 THEN Outcome(sp.provider, sp.currentProviderType,
                              <<InitSuccessEnv(providerType),
                                InitErrorEnv(sp.error.message)>>, NoOp, <<>>,
                              TRUE)
                 ELSE Outcome(sp.provider, sp.currentProviderType,
                              <<InitSuccessEnv(providerType)>>, NoOp, <<>>,
                              FALSE)

\* part_000:110-126
onInit(m) ==
    LET providerType ==
            IF Truthy(m.providerType) THEN m.providerType
            ELSE Str("jsAesCrypt")
    IN  IF ~isProviderType(providerType)
        THEN Reply(InitErrorEnv(<<"Invalid", "provider", "type">>))
        ELSE LET sp == setProvider(providerType.s)
             IN  IF sp.threw
                 THEN Outcome(sp.provider, sp.currentProviderType,
                              <<InitErrorEnv(sp.error.message)>>, NoOp, <<>>,
                              TRUE)
                 ELSE Outcome(sp.provider, sp.currentProviderType,
                              <<InitSuccessEnv(providerType)>>, NoOp, <<>>,
                              FALSE)

\* dispatch that invokes the backend operation a second time
dispatchTwice(m, sp) ==
    LET method == IF m.action.s = "ENCRYPT" THEN "encrypt" ELSE "decrypt"
    IN  Outcome(sp.provider, sp.currentProviderType, <<>>,
                [action |-> m.action.s, fileName |-> m.fileName.chars,
                 on |-> sp.provider, n |-> 2],
                <<Call(sp.provider, method), Call(sp.provider, method)>>,
                FALSE)

\* dispatch on the instance that was active when the handler started
dispatchOnPrevious(m, sp) ==
    LET method == IF m.action.s = "ENCRYPT" THEN "encrypt" ELSE "decrypt"
    IN  Outcome(sp.provider, sp.currentProviderType, <<>>,
                [action |-> m.action.s, fileName |-> m.fileName.chars,
                 on |-> provider, n |-> 1],
                <<Call(provider, method)>>, FALSE)

\* part_000:169-189: provider.encrypt / provider.decrypt is called on the
\* active instance and the promise is left pending
dispatch(m, sp) ==
    LET method == IF m.action.s = "ENCRYPT" THEN "encrypt" ELSE "decrypt"
    IN  Outcome(sp.provider, sp.currentProviderType, <<>>,
                [action |-> m.action.s, fileName |-> m.fileName.chars,
                 on |-> sp.provider, n |-> 1],
                <<Call(sp.provider, method)>>, FALSE)

\* validation with the password and fileName checks in the other order
validateOperationNameFirst(m) ==
    IF m.file.t # "Blob"
    THEN <<"Invalid", "file", "data">>
    ELSE IF m.fileName.t # "string" \/ hasTraversal(m.fileName.chars)
    THEN <<"Invalid", "filename">>
    ELSE IF m.password.t # "string" \/ m.password.len = 0
    THEN <<"Invalid", "password">>
    ELSE IF m.providerType.t # "undefined" /\ ~isProviderType(m.providerType)
    THEN <<"Invalid", "provider", "type">>
    ELSE <<>>

\* part_000:135-157: the message of the first failing check, <<>> if the
\* request passes all four
validateOperation(m) ==
    IF m.file.t # "Blob"
    THEN <<"Invalid", "file", "data">>
    ELSE IF m.password.t # "string" \/ m.password.len = 0
    THEN <<"Invalid", "password">>
    ELSE IF m.fileName.t # "string" \/ hasTraversal(m.fileName.chars)
    THEN <<"Invalid", "filename">>
    ELSE IF m.providerType.t # "undefined" /\ ~isProviderType(m.providerType)
    THEN <<"Invalid", "provider", "type">>
    ELSE <<>>

\* the handler with the provider switch placed before the validation
onOperationSwitchFirst(m) ==
    LET sp == IF isProviderType(m.providerType)
                 /\ m.providerType.s # currentProviderType
              THEN setProvider(m.providerType.s)
              ELSE Switched(provider, currentProviderType)
        rejection == validateOperation(m)
    IN  IF sp.threw
        THEN Outcome(sp.provider, sp.currentProviderType,
                 <<ErrorEnv(<<"Failed", "to", "switch", "provider", ":">>
                                \o sp.error.message, m.action)>>,
                 NoOp, <<>>, TRUE)
        ELSE IF rejection # <<>>
        THEN Outcome(sp.provider, sp.currentProviderType,
                 <<ErrorEnv(rejection, m.action)>>, NoOp, <<>>, FALSE)
        ELSE dispatch(m, sp)

\* the handler falling back to the active provider when the switch fails
onOperationFallback(m) ==
    LET action == m.action
        rejection == validateOperation(m)
    IN  IF rejection # <<>>
        THEN Reply(ErrorEnv(rejection, action))
        ELSE IF Truthy(m.providerType)
                /\ m.providerType.s # currentProviderType
        THEN LET sp == setProvider(m.providerType.s)
             IN  IF sp.threw
                 THEN dispatch(m, Switched(provider, currentProviderType))
                 ELSE dispatch(m, sp)
        ELSE dispatch(m, Switched(provider, currentProviderType))

\* the handler treating an absent providerType as a request for the
\* default variant, as INIT does
onOperationDefaulting(m) ==
    LET action == m.action
        rejection == validateOperation(m)
        providerType == IF Truthy(m.providerType) THEN m.providerType
                        ELSE Str("jsAesCrypt")
    IN  IF rejection # <<>>
        THEN Reply(ErrorEnv(rejection, action))
        ELSE IF providerType.s # currentProviderType
        THEN LET sp == setProvider(providerType.s)
             IN  IF sp.threw
                 THEN Outcome(sp.provider, sp.currentProviderType,
                          <<ErrorEnv(<<"Failed", "to", "switch", "provider",
                                       ":">> \o sp.error.message, action)>>,
                          NoOp, <<>>, TRUE)
                 ELSE dispatch(m, sp)
        ELSE dispatch(m, Switched(provider, currentProviderType))

\* part_000:129-190
onOperation(m) ==
    LET action == m.action
        rejection == validateOperation(m)
    IN  IF rejection # <<>>
        THEN Reply(ErrorEnv(rejection, action))
        ELSE IF Truthy(m.providerType)
                /\ m.providerType.s # currentProviderType
        THEN LET sp == setProvider(m.providerType.s)
             IN  IF sp.threw
                 THEN Outcome(sp.provider, sp.currentProviderType,
                          <<ErrorEnv(<<"Failed", "to", "switch", "provider",
                                       ":">> \o sp.error.message, action)>>,
                          NoOp, <<>>, TRUE)
                 ELSE dispatch(m, sp)
        ELSE dispatch(m, Switched(provider, currentProviderType))

\* the handler ignoring messages while an operation is pending
onmessageBusy(m) ==
    IF inflight # EmptyBag
    THEN Outcome(provider, currentProviderType, <<>>, NoOp, <<>>, FALSE)
    ELSE IF ~m.isArray \/ m.length < 1
    THEN Reply(ErrorEnv(<<"Invalid", "message", "format">>, JsNull))
    ELSE IF m.action.t # "string"
    THEN Reply(ErrorEnv(<<"Invalid", "action", "type">>, JsNull))
    ELSE IF m.action.s = "INIT"
    THEN onInit(m)
    ELSE IF m.action.s = "ENCRYPT" \/ m.action.s = "DECRYPT"
    THEN onOperation(m)
    ELSE Outcome(provider, currentProviderType, <<>>, NoOp, <<>>, FALSE)

\* the handler without the data.length test
onmessageNoLengthTest(m) ==
    IF ~m.isArray
    THEN Reply(ErrorEnv(<<"Invalid", "message", "format">>, JsNull))
    ELSE IF m.action.t # "string"
    THEN Reply(ErrorEnv(<<"Invalid", "action", "type">>, JsNull))
    ELSE IF m.action.s = "INIT"
    THEN onInit(m)
    ELSE IF m.action.s = "ENCRYPT" \/ m.action.s = "DECRYPT"
    THEN onOperation(m)
    ELSE Outcome(provider, currentProviderType, <<>>, NoOp, <<>>, FALSE)

\* part_000:92-191
onmessage(m) ==
    IF ~m.isArray \/ m.length < 1
    THEN Reply(ErrorEnv(<<"Invalid", "message", "format">>, JsNull))
    ELSE IF m.action.t # "string"
    THEN Reply(ErrorEnv(<<"Invalid", "action", "type">>, JsNull))
    ELSE IF m.action.s = "INIT"
    THEN onInit(m)
    ELSE IF m.action.s = "ENCRYPT" \/ m.action.s = "DECRYPT"
    THEN onOperation(m)
    ELSE Outcome(provider, currentProviderType, <<>>, NoOp, <<>>, FALSE)

(***************************************************************************)
(* Inputs                                                                  *)
(***************************************************************************)
ProviderTypeValues ==
    {Undefined, JsNull, Str(""), Num42, Str("bogus"),
     Str("jsAesCrypt"), Str("webCrypto"), Str("age")}
Files == {Blob, NoFile, NotABlob}
Passwords == {Pw(2), Pw(0), NoPw}
FileNames ==
    {Name(<<"a">>), Name(<<"a", ".", "b">>), Name(<<>>), NoName,
     Name(<<".", ".">>), Name(<<"a", "/", "b">>), Name(<<"\\", "a">>)}
Operations == {"ENCRYPT", "DECRYPT"}

\* every message shape the handler distinguishes
Messages ==
    {NotAnArray, EmptyArray, ActionOnly(Num42), ActionOnly(JsNull),
     ActionOnly(Str("FOO")), ActionOnly(Str("init"))}
        \cup {InitMsg(pt) : pt \in ProviderTypeValues}
        \cup {OpMsg(a, f, pw, n, pt) :
                a \in Operations, f \in Files, pw \in Passwords,
                n \in FileNames, pt \in ProviderTypeValues}

\* the messages of a page session: every INIT, the well-formed requests
\* and a few malformed ones
Requests ==
    {NotAnArray, EmptyArray, ActionOnly(Num42), ActionOnly(Str("FOO"))}
        \cup {InitMsg(pt) : pt \in ProviderTypeValues}
        \cup {OpMsg(a, Blob, Pw(2), Name(<<"a", ".", "b">>), pt) :
                a \in Operations,
                pt \in {Undefined, Str("jsAesCrypt"), Str("webCrypto"),
                        Str("age")}}
        \cup {OpMsg("ENCRYPT", Blob, Pw(2), Name(<<".", ".">>),
                    Str("webCrypto")),
              OpMsg("DECRYPT", NoFile, Pw(0), NoName, Str("bogus")),
              OpMsg("ENCRYPT", Blob, Pw(2), Name(<<"a">>), Str("bogus"))}

\* messages that put the worker in each dispatch context before a second
\* message arrives
Warmups ==
    {InitMsg(Undefined), InitMsg(Str("webCrypto")), InitMsg(Str("age")),
     OpMsg("ENCRYPT", Blob, Pw(2), Name(<<"a">>), Undefined),
     OpMsg("DECRYPT", Blob, Pw(2), Name(<<"a", ".", "b">>), Str("webCrypto"))}

\* diagnostics of the cryptographic backends, before _enhanceError
BackendFailures == {Err(<<"Wrong", "password">>), Err(<<"disk", "exploded">>)}

(***************************************************************************)
(* State machine                                                           *)
(***************************************************************************)
Init ==
    /\ loaderPc = "importing"
    /\ rageWasm = "null"
    /\ rageWasmReady = FALSE
    /\ provider = Instance("jsAesCrypt", 0)
    /\ currentProviderType = "jsAesCrypt"
    /\ inflight = EmptyBag
    /\ inbox = <<>>
    /\ instances = 1
    /\ last = NoTask
    /\ names = NoNames
    /\ normalized = {}
    /\ codec = NoCodec
    /\ NoService

\* the loader setting the flag and leaving the module reference null
LoaderResolveFlagOnly ==
    /\ loaderPc = "importing"
    /\ rageWasmReady' = TRUE
    /\ loaderPc' = "done"
    /\ UNCHANGED <<rageWasm, provider, currentProviderType, inflight, inbox,
                   instances, last, scratch>>

\* part_000:46-48: the dynamic import resolved
LoaderResolve ==
    /\ loaderPc = "importing"
    /\ rageWasm' = "module"
    /\ rageWasmReady' = TRUE
    /\ loaderPc' = "done"
    /\ UNCHANGED <<provider, currentProviderType, inflight, inbox, instances,
                   last, scratch>>

\* part_000:52-55: the dynamic import failed
LoaderReject ==
    /\ loaderPc = "importing"
    /\ loaderPc' = "failed"
    /\ UNCHANGED <<rageWasm, rageWasmReady, provider, currentProviderType,
                   inflight, inbox, instances, last, scratch>>

\* the page reads the record of the last task
Observe ==
    /\ last.task # "none"
    /\ last' = NoTask
    /\ UNCHANGED <<loaderPc, rageWasm, rageWasmReady, provider,
                   currentProviderType, inflight, inbox, instances, scratch>>

\* a handler run whose provider switch drops the pending operations
HandleCancelling(m) ==
    LET r == onmessage(m)
    IN  /\ r.op # NoOp => BagCardinality(inflight) < MaxInFlight
        /\ r.provider # provider => instances < MaxInstances
        /\ instances' = IF r.provider # provider THEN instances + 1
                        ELSE instances
        /\ provider' = r.provider
        /\ currentProviderType' = r.currentProviderType
        /\ inflight' = IF r.provider # provider
                       THEN (IF r.op = NoOp THEN EmptyBag
                             ELSE SetToBag({r.op}))
                       ELSE IF r.op = NoOp THEN inflight
                       ELSE inflight (+) SetToBag({r.op})
        /\ last' = [task |-> "message", msg |-> m, prev |-> provider,
                    prevType |-> currentProviderType, out |-> r.out,
                    calls |-> r.calls, op |-> r.op, threw |-> r.threw]
        /\ UNCHANGED <<loaderPc, rageWasm, rageWasmReady, scratch>>

\* one run of the worker's onmessage handler on e.data = m
Handle(m) ==
    LET r == onmessage(m)
    IN  /\ r.op # NoOp => BagCardinality(inflight) < MaxInFlight
        /\ r.provider # provider => instances < MaxInstances
        /\ instances' = IF r.provider # provider THEN instances + 1
                        ELSE instances
        /\ provider' = r.provider
        /\ currentProviderType' = r.currentProviderType
        /\ inflight' = IF r.op = NoOp THEN inflight
                       ELSE inflight (+) SetToBag({r.op})
        /\ last' = [task |-> "message", msg |-> m, prev |-> provider,
                    prevType |-> currentProviderType, out |-> r.out,
                    calls |-> r.calls, op |-> r.op, threw |-> r.threw]
        /\ UNCHANGED <<loaderPc, rageWasm, rageWasmReady, scratch>>

\* the page, having read the record of the last task, posts m and the
\* worker handles it
Deliver(m) ==
    /\ inbox = <<>>
    /\ last.task = "none"
    /\ Handle(m)
    /\ UNCHANGED inbox

\* the worker handles the oldest queued message
OnMessage ==
    /\ inbox # <<>>
    /\ Handle(Head(inbox))
    /\ inbox' = Tail(inbox)

\* the bytes a provider's backend returns
Bytes(p, action) == [by |-> p, of |-> action]

\* the identifier `provider` as the promise reactions read it
\* (part_000:172, 176, 186)
reactionProvider(op) == provider

\* the fulfilled reaction posting the request's fileName as it came
onFulfilledBareName(op) ==
    LET p == reactionProvider(op)
    IN  IF op.action = "ENCRYPT"
        THEN [out |-> <<SuccessEnv("ENCRYPT", Bytes(op.on, op.action),
                            op.fileName)>>,
              calls |-> <<Call(p, "getInfo")>>]
        ELSE [out |-> <<SuccessEnv("DECRYPT", Bytes(op.on, op.action),
                            stripExtension(op.fileName))>>,
              calls |-> <<>>]

\* part_000:170-173 and 180-183: the reaction to the fulfilled promise
onFulfilled(op) ==
    LET p == reactionProvider(op)
    IN  IF op.action = "ENCRYPT"
        THEN [out |-> <<SuccessEnv("ENCRYPT", Bytes(op.on, op.action),
                            op.fileName \o getInfo(p).fileExtension)>>,
              calls |-> <<Call(p, "getInfo")>>]
        ELSE [out |-> <<SuccessEnv("DECRYPT", Bytes(op.on, op.action),
                            stripExtension(op.fileName))>>,
              calls |-> <<>>]

\* the rejected reaction posting the diagnostic instead of the user message
onRejectedRaw(op, error) ==
    LET p == reactionProvider(op)
        normalizedError == normalizeError(p, error)
    IN  [out |-> <<ErrorEnv(normalizedError.message, Str(op.action))>>,
         calls |-> <<Call(p, "normalizeError")>>]

\* part_000:174-178 and 184-188: the reaction to the rejected promise
onRejected(op, error) ==
    LET p == reactionProvider(op)
        normalizedError == normalizeError(p, error)
    IN  [out |-> <<ErrorEnv(normalizedError.userMessage, Str(op.action))>>,
         calls |-> <<Call(p, "normalizeError")>>]

\* the promise of a pending operation is fulfilled and its reaction runs
Then(op) ==
    /\ BagIn(op, inflight)
    /\ LET r == onFulfilled(op)
       IN  last' = [task |-> "then", msg |-> NoMsg, prev |-> provider,
                    prevType |-> currentProviderType, out |-> r.out,
                    calls |-> r.calls, op |-> op, threw |-> FALSE]
    /\ inflight' = inflight (-) SetToBag({op})
    /\ UNCHANGED <<loaderPc, rageWasm, rageWasmReady, provider,
                   currentProviderType, inbox, instances, scratch>>

\* the promise of a pending operation is rejected with the failure the
\* provider's encrypt/decrypt raised (JsAesCryptWorkerProvider.js:28-29,
\* 198-199, worker.js:276-277) and its reaction runs
Catch(op, failure) ==
    /\ BagIn(op, inflight)
    /\ LET error == enhanceError(failure,
                        IF op.action = "ENCRYPT" THEN "encrypt" ELSE "decrypt")
           r == onRejected(op, error)
       IN  last' = [task |-> "catch", msg |-> NoMsg, prev |-> provider,
                    prevType |-> currentProviderType, out |-> r.out,
                    calls |-> r.calls, op |-> op, threw |-> FALSE]
    /\ inflight' = inflight (-) SetToBag({op})
    /\ UNCHANGED <<loaderPc, rageWasm, rageWasmReady, provider,
                   currentProviderType, inbox, instances, scratch>>

Reactions ==
    \/ \E op \in BagToSet(inflight) : Then(op)
    \/ \E op \in BagToSet(inflight), f \in BackendFailures : Catch(op, f)

Next ==
    \/ LoaderResolve
    \/ LoaderReject
    \/ \E m \in Requests : Deliver(m)
    \/ Observe
    \/ Reactions

Spec == Init /\ [][Next]_vars

\* a page session with an INIT for either built-in variant, requests with
\* and without a switch, and a malformed message
SettlingRequests ==
    {InitMsg(Undefined), InitMsg(Str("webCrypto")), EmptyArray,
     OpMsg("ENCRYPT", Blob, Pw(2), Name(<<"a", ".", "b">>), Undefined),
     OpMsg("DECRYPT", Blob, Pw(2), Name(<<"a", ".", "b">>), Str("webCrypto"))}

\* every operation record a dispatch of that session can create
AllOps ==
    {[action |-> a, fileName |-> <<"a", ".", "b">>, on |-> Instance(t, i),
      n |-> 1] :
        a \in Operations, t \in {"jsAesCrypt", "webCrypto"},
        i \in 0..(MaxInstances - 1)}

\* the backend call of a pending operation resolves or rejects
Settle(op) ==
    \/ Then(op)
    \/ \E f \in BackendFailures : Catch(op, f)

NextSettling ==
    \/ \E m \in SettlingRequests : Deliver(m)
    \/ Observe
    \/ Reactions

\* the page session in which every backend call eventually settles
SpecSettling ==
    /\ Init
    /\ [][NextSettling]_vars
    /\ \A op \in AllOps : WF_vars(Settle(op))

NextQueued ==
    \/ LoaderResolve
    \/ LoaderReject
    \/ OnMessage
    \/ Reactions

\* a page that queued two messages before the worker handled the first
InitQueued ==
    /\ loaderPc = "importing"
    /\ rageWasm = "null"
    /\ rageWasmReady = FALSE
    /\ provider = Instance("jsAesCrypt", 0)
    /\ currentProviderType = "jsAesCrypt"
    /\ inflight = EmptyBag
    /\ inbox \in {<<w, m>> : w \in Warmups, m \in Messages}
    /\ instances = 1
    /\ last = NoTask
    /\ names = NoNames
    /\ normalized = {}
    /\ codec = NoCodec
    /\ NoService

SpecQueued == InitQueued /\ [][NextQueued]_vars

(***************************************************************************)
(* File names on their own: a file is encrypted and the file that comes    *)
(* back is submitted for decryption under the name it was given            *)
(***************************************************************************)
NameChars == {"a", "b", "."}

\* the names of at most MaxNameLen characters that pass part_000:148
AcceptedNames ==
    {n \in UNION {[1..k -> NameChars] : k \in 0..MaxNameLen} :
        ~hasTraversal(n)}

\* the operation record of a request on the active provider
NameOp(action, chars) ==
    [action |-> action, fileName |-> chars, on |-> provider, n |-> 1]

\* the worker after its start or after one INIT, the backend loaded, and
\* a file name chosen by the page
InitNames ==
    /\ loaderPc = "done"
    /\ rageWasm = "module"
    /\ rageWasmReady = TRUE
    /\ \E t \in ProviderTypes :
          /\ provider = Instance(t, IF t = "jsAesCrypt" THEN 0 ELSE 1)
          /\ currentProviderType = t
          /\ instances = IF t = "jsAesCrypt" THEN 1 ELSE 2
    /\ inflight = EmptyBag
    /\ inbox = <<>>
    /\ last = NoTask
    /\ names \in {[stage |-> "named", original |-> n, encrypted |-> <<>>,
                    decrypted |-> <<>>] : n \in AcceptedNames}
    /\ normalized = {}
    /\ codec = NoCodec
    /\ NoService

\* part_000:170-173: the name posted with the encrypted bytes
EncryptName ==
    /\ names.stage = "named"
    /\ names' = [names EXCEPT
                    !.stage = "encrypted",
                    !.encrypted =
                        onFulfilled(NameOp("ENCRYPT", names.original))
                            .out[1].fileName]
    /\ UNCHANGED <<worker, normalized, codec, service>>

\* part_000:135-157 and 180-183: the encrypted file, submitted under the
\* name it was posted with, passes validation and its decrypted name is
\* posted
DecryptName ==
    /\ names.stage = "encrypted"
    /\ validateOperation(OpMsg("DECRYPT", Blob, Pw(2), Name(names.encrypted),
                               Undefined)) = <<>>
    /\ names' = [names EXCEPT
                    !.stage = "decrypted",
                    !.decrypted =
                        onFulfilled(NameOp("DECRYPT", names.encrypted))
                            .out[1].fileName]
    /\ UNCHANGED <<worker, normalized, codec, service>>

NextNames ==
    \/ EncryptName
    \/ DecryptName

SpecNames == InitNames /\ [][NextNames]_vars

(***************************************************************************)
(* normalizeError on its own: each provider classifies diagnostics         *)
(***************************************************************************)
\* error values that reach the three normalizeError functions
Diagnostics ==
    {Err(<<"Wrong", "password">>),
     Err(<<"Bad", "HMAC">>),
     Err(<<"Password", "is", "too", "long">>),
     Err(<<"Password", "too", "long", "(max", "1024", "characters)">>),
     Err(<<"Password", "is", "required">>),
     Err(<<"file", "is", "corrupted">>),
     Err(<<"Invalid", "format">>),
     Err(<<"Invalid", "file", "format", ":", "file", "too", "short">>),
     Err(<<"encrypt", "failed", ":", "disk", "exploded">>),
     Err(<<"decrypt", "failed", ":", "disk", "exploded">>),
     Err(<<"Decryption", "failed">>),
     Err(<<"disk", "exploded">>),
     ErrString(<<"tampered">>),
     ErrString(<<>>),
     ErrObject,
     ErrNull}

\* one provider object of each class
Providers == {Instance(t, 0) : t \in ProviderTypes}

InitNormalize ==
    /\ loaderPc = "importing"
    /\ rageWasm = "null"
    /\ rageWasmReady = FALSE
    /\ provider = Instance("jsAesCrypt", 0)
    /\ currentProviderType = "jsAesCrypt"
    /\ inflight = EmptyBag
    /\ inbox = <<>>
    /\ instances = 1
    /\ last = NoTask
    /\ names = NoNames
    /\ normalized = {}
    /\ codec = NoCodec
    /\ NoService

\* p.normalizeError(error) is called and its result kept
Normalize(p, error) ==
    /\ Cardinality(normalized) < MaxNormalized
    /\ normalized' = normalized \cup
                         {[by |-> p.type, result |-> normalizeError(p, error)]}
    /\ UNCHANGED <<worker, names, codec, service>>

NextNormalize == \E p \in Providers, error \in Diagnostics : Normalize(p, error)

SpecNormalize == InitNormalize /\ [][NextNormalize]_vars

(***************************************************************************)
(* Provider encrypt and decrypt on their own                               *)
(*                                                                         *)
(* Bytes are records tagged with what they are.  The platform engine       *)
(* (crypto.subtle) and the two library backends (aesCrypt, rage-wasm) are  *)
(* correct codecs: decryption returns the plaintext exactly when given the *)
(* output of encryption under the same key, and fails otherwise.           *)
(***************************************************************************)
\* worker.js:175-176
saltLength == 16
ivLength == 12
\* AES-GCM appends a 128-bit authentication tag (worker.js:258-265)
tagLength == 16

\* validatePassword with the bound excluded
validatePasswordExclusive(p, password) ==
    IF password.t # "string" \/ password.len = 0
    THEN [valid |-> FALSE, error |-> <<"Password", "is", "required">>]
    ELSE IF p.type = "age"
    THEN [valid |-> TRUE, error |-> <<>>]
    ELSE IF password.len >= getInfo(p).maxPasswordLength
    THEN [valid |-> FALSE,
          error |-> <<"Password", "too", "long", "(max",
                      NumWord(getInfo(p).maxPasswordLength), "characters)">>]
    ELSE [valid |-> TRUE, error |-> <<>>]

\* provider.validatePassword(password) (worker.js:413-427,
\* JsAesCryptWorkerProvider.js:121-135 and 305-315)
validatePassword(p, password) ==
    IF password.t # "string" \/ password.len = 0
    THEN [valid |-> FALSE, error |-> <<"Password", "is", "required">>]
    ELSE IF p.type = "age"
    THEN [valid |-> TRUE, error |-> <<>>]
    ELSE IF password.len > getInfo(p).maxPasswordLength
    THEN [valid |-> FALSE,
          error |-> <<"Password", "too", "long", "(max",
                      NumWord(getInfo(p).maxPasswordLength), "characters)">>]
    ELSE [valid |-> TRUE, error |-> <<>>]

\* crypto.getRandomValues(new Uint8Array(n)): n bytes of one draw
RandomBytes(seed, n) == [i \in 1..n |-> [k |-> "random", seed |-> seed, i |-> i]]

\* a step a provider method took, with its arguments
Step(fn, args) == [fn |-> fn, args |-> args]

\* _deriveKey(password, salt): PBKDF2 is a function of both
deriveKey(password, salt) == [password |-> password, salt |-> salt]

\* crypto.subtle.encrypt({name: 'AES-GCM', iv}, key, data): one ciphertext
\* byte per plaintext byte, then the tag that binds key, iv and plaintext
subtleEncrypt(iv, key, data) ==
    [i \in 1..Len(data) |-> [k |-> "ct", i |-> i]]
        \o [j \in 1..tagLength |->
                [k |-> "tag", i |-> j, key |-> key, iv |-> iv, data |-> data]]

\* crypto.subtle.decrypt({name: 'AES-GCM', iv}, key, encryptedData): the
\* plaintext when the tag verifies, an OperationError otherwise
subtleDecrypt(iv, key, encryptedData) ==
    LET n == Len(encryptedData) - tagLength
    IN  IF /\ n >= 0
           /\ \A j \in 1..tagLength : encryptedData[n + j].k = "tag"
           /\ \A j \in 1..tagLength :
                 /\ encryptedData[n + j].i = j
                 /\ encryptedData[n + j].key = key
                 /\ encryptedData[n + j].iv = iv
                 /\ encryptedData[n + j].data = encryptedData[n + 1].data
           /\ Len(encryptedData[n + 1].data) = n
           /\ \A i \in 1..n : encryptedData[i] = [k |-> "ct", i |-> i]
        THEN [ok |-> TRUE, data |-> encryptedData[n + 1].data,
              name |-> ""]
        ELSE [ok |-> FALSE, data |-> <<>>, name |-> "OperationError"]

\* the message of the platform's OperationError
OperationErrorText ==
    <<"The", "operation", "failed", "for", "an", "operation-specific",
      "reason">>

\* WebCrypto encrypt writing the nonce before the salt
WebCryptoEncryptNonceFirst(data, password, saltSeed, ivSeed) ==
    LET validation == validatePassword(Instance("webCrypto", 0), password)
        salt == RandomBytes(saltSeed, saltLength)
        iv == RandomBytes(ivSeed, ivLength)
        key == deriveKey(password, salt)
        encryptedArray == subtleEncrypt(iv, key, data)
    IN  IF ~validation.valid
        THEN Rejected(enhanceError(Err(validation.error), "encrypt"),
                      <<Step("validatePassword", <<password>>)>>)
        ELSE Resolved(iv \o salt \o encryptedArray,
                      <<Step("validatePassword", <<password>>),
                        Step("getRandomValues", <<saltLength>>),
                        Step("getRandomValues", <<ivLength>>),
                        Step("_deriveKey", <<password, salt>>),
                        Step("subtle.encrypt", <<iv, key, data>>)>>)

\* WebCryptoWorkerProvider.encrypt (worker.js:239-279)
WebCryptoEncrypt(data, password, saltSeed, ivSeed) ==
    LET validation == validatePassword(Instance("webCrypto", 0), password)
        salt == RandomBytes(saltSeed, saltLength)
        iv == RandomBytes(ivSeed, ivLength)
        key == deriveKey(password, salt)
        encryptedArray == subtleEncrypt(iv, key, data)
    IN  IF ~validation.valid
        THEN Rejected(enhanceError(Err(validation.error), "encrypt"),
                      <<Step("validatePassword", <<password>>)>>)
        ELSE Resolved(salt \o iv \o encryptedArray,
                      <<Step("validatePassword", <<password>>),
                        Step("getRandomValues", <<saltLength>>),
                        Step("getRandomValues", <<ivLength>>),
                        Step("_deriveKey", <<password, salt>>),
                        Step("subtle.encrypt", <<iv, key, data>>)>>)

\* WebCrypto decrypt reading the nonce from the first ivLength bytes
WebCryptoDecryptNonceFirst(data, password) ==
    IF Len(data) < saltLength + ivLength
    THEN Rejected(enhanceError(Err(<<"Invalid", "file", "format", ":",
                                     "file", "too", "short">>), "decrypt"),
                  <<>>)
    ELSE LET iv == SubSeq(data, 1, ivLength)
             salt == SubSeq(data, ivLength + 1, saltLength + ivLength)
             encryptedData == SubSeq(data, saltLength + ivLength + 1, Len(data))
             key == deriveKey(password, salt)
             d == subtleDecrypt(iv, key, encryptedData)
             calls == <<Step("_deriveKey", <<password, salt>>),
                        Step("subtle.decrypt", <<iv, key, encryptedData>>)>>
         IN  IF d.ok THEN Resolved(d.data, calls)
             ELSE Rejected(enhanceError(
                               Err(<<"Wrong", "password", "or", "corrupted",
                                     "data">>), "decrypt"), calls)

\* WebCrypto decrypt that rethrows the OperationError as it is
WebCryptoDecryptRethrow(data, password) ==
    IF Len(data) < saltLength + ivLength
    THEN Rejected(enhanceError(Err(<<"Invalid", "file", "format", ":",
                                     "file", "too", "short">>), "decrypt"),
                  <<>>)
    ELSE LET salt == SubSeq(data, 1, saltLength)
             iv == SubSeq(data, saltLength + 1, saltLength + ivLength)
             encryptedData == SubSeq(data, saltLength + ivLength + 1, Len(data))
             key == deriveKey(password, salt)
             d == subtleDecrypt(iv, key, encryptedData)
             calls == <<Step("_deriveKey", <<password, salt>>),
                        Step("subtle.decrypt", <<iv, key, encryptedData>>)>>
         IN  IF d.ok THEN Resolved(d.data, calls)
             ELSE Rejected(enhanceError(Err(OperationErrorText), "decrypt"),
                           calls)

\* WebCrypto decrypt without the minimum-length test
WebCryptoDecryptNoLengthTest(data, password) ==
    LET salt == SubSeq(data, 1, IF Len(data) < saltLength THEN Len(data)
                                ELSE saltLength)
        iv == SubSeq(data, saltLength + 1,
                     IF Len(data) < saltLength + ivLength THEN Len(data)
                     ELSE saltLength + ivLength)
        encryptedData == SubSeq(data, saltLength + ivLength + 1, Len(data))
        key == deriveKey(password, salt)
        d == subtleDecrypt(iv, key, encryptedData)
        calls == <<Step("_deriveKey", <<password, salt>>),
                   Step("subtle.decrypt", <<iv, key, encryptedData>>)>>
    IN  IF d.ok THEN Resolved(d.data, calls)
        ELSE Rejected(enhanceError(
                          Err(<<"Wrong", "password", "or", "corrupted",
                                "data">>), "decrypt"), calls)

\* WebCryptoWorkerProvider.decrypt (worker.js:287-328)
WebCryptoDecrypt(data, password) ==
    IF Len(data) < saltLength + ivLength
    THEN Rejected(enhanceError(Err(<<"Invalid", "file", "format", ":",
                                     "file", "too", "short">>), "decrypt"),
                  <<>>)
    ELSE LET salt == SubSeq(data, 1, saltLength)
             iv == SubSeq(data, saltLength + 1, saltLength + ivLength)
             encryptedData == SubSeq(data, saltLength + ivLength + 1, Len(data))
             key == deriveKey(password, salt)
             d == subtleDecrypt(iv, key, encryptedData)
             calls == <<Step("_deriveKey", <<password, salt>>),
                        Step("subtle.decrypt", <<iv, key, encryptedData>>)>>
         IN  IF d.ok THEN Resolved(d.data, calls)
             ELSE Rejected(enhanceError(
                               IF d.name = "OperationError"
                               THEN Err(<<"Wrong", "password", "or",
                                          "corrupted", "data">>)
                               ELSE Err(<<d.name>>), "decrypt"), calls)

\* a library backend as a codec: the container holds what was sealed
Sealed(format, password, data) ==
    <<[k |-> format, password |-> password, data |-> data]>>

\* the library's decrypt: the plaintext under the sealing password, the
\* library's own diagnostic otherwise
Unseal(format, data, password, wrongPassword, notAContainer) ==
    IF Len(data) = 1 /\ data[1].k = format
    THEN IF data[1].password = password
         THEN [ok |-> TRUE, data |-> data[1].data, error |-> ErrNull]
         ELSE [ok |-> FALSE, data |-> <<>>, error |-> wrongPassword]
    ELSE [ok |-> FALSE, data |-> <<>>, error |-> notAContainer]

\* JsAesCryptWorkerProvider.encrypt (JsAesCryptWorkerProvider.js:20-31);
\* the library refuses passwords over its maxPassLen
JsAesEncrypt(p, data, password) ==
    IF password.len > getInfo(p).maxPasswordLength
    THEN Rejected(enhanceError(Err(<<"Password", "is", "too", "long">>),
                               "encrypt"),
                  <<Step("aesCrypt.encrypt", <<password>>)>>)
    ELSE Resolved(Sealed("aescrypt", password, data),
                  <<Step("aesCrypt.encrypt", <<password>>)>>)

\* JsAesCryptWorkerProvider.decrypt (JsAesCryptWorkerProvider.js:39-50)
JsAesDecrypt(data, password) ==
    LET d == Unseal("aescrypt", data, password,
                    Err(<<"Wrong", "password", "(or", "file", "is",
                          "corrupted).">>),
                    Err(<<"file", "is", "corrupted", "or", "not", "an",
                          "aes", "crypt", "file">>))
        calls == <<Step("aesCrypt.decrypt", <<password>>)>>
    IN  IF d.ok THEN Resolved(d.data, calls)
        ELSE Rejected(enhanceError(d.error, "decrypt"), calls)

\* AgeWorkerProvider.encrypt (JsAesCryptWorkerProvider.js:174-201)
AgeEncrypt(p, data, password) ==
    LET validation == validatePassword(p, password)
    IN  IF ~validation.valid
        THEN Rejected(enhanceError(Err(validation.error), "encrypt"),
                      <<Step("validatePassword", <<password>>)>>)
        ELSE Resolved(Sealed("age", password, data),
                      <<Step("validatePassword", <<password>>),
                        Step("encrypt_with_user_passphrase", <<password>>)>>)

\* AgeWorkerProvider.decrypt (JsAesCryptWorkerProvider.js:209-228)
AgeDecrypt(data, password) ==
    LET d == Unseal("age", data, password,
                    ErrString(<<"Decryption", "failed">>),
                    ErrString(<<"not", "an", "age", "encrypted", "file">>))
        calls == <<Step("decrypt_with_user_passphrase", <<password>>)>>
    IN  IF d.ok THEN Resolved(d.data, calls)
        ELSE Rejected(enhanceError(d.error, "decrypt"), calls)

\* p.encrypt(data, password)
providerEncrypt(p, data, password, saltSeed, ivSeed) ==
    CASE p.type = "jsAesCrypt" -> JsAesEncrypt(p, data, password)
      [] p.type = "webCrypto"  ->
            WebCryptoEncrypt(data, password, saltSeed, ivSeed)
      [] p.type = "age"        -> AgeEncrypt(p, data, password)

\* p.decrypt(data, password)
providerDecrypt(p, data, password) ==
    CASE p.type = "jsAesCrypt" -> JsAesDecrypt(data, password)
      [] p.type = "webCrypto"  -> WebCryptoDecrypt(data, password)
      [] p.type = "age"        -> AgeDecrypt(data, password)

\* payloads: every byte string of up to MaxPayloadLen bytes over two byte
\* values, and the five bytes of "hello"
Payloads ==
    UNION {[1..k -> {"00", "ff"}] : k \in 0..MaxPayloadLen}
        \cup {<<"h", "e", "l", "l", "o">>}

\* two ordinary passwords, one of exactly the bound and one over it
CodecPasswords ==
    {Password("pw123", 5), Password("wrong", 5), Password("max", 1024),
     Password("over", 1025)}

\* an empty password and a missing one, as a caller of the AEAD or the age
\* provider can pass them to encrypt
MissingPasswords ==
    {Password("", 0), [t |-> "undefined", len |-> 0, id |-> "undefined"]}

RandomSeeds == {"r1", "r2"}

InitCodec ==
    /\ loaderPc = "done"
    /\ rageWasm = "module"
    /\ rageWasmReady = TRUE
    /\ provider = Instance("jsAesCrypt", 0)
    /\ currentProviderType = "jsAesCrypt"
    /\ inflight = EmptyBag
    /\ inbox = <<>>
    /\ instances = 1
    /\ last = NoTask
    /\ names = NoNames
    /\ normalized = {}
    /\ NoService
    /\ codec \in {[NoCodec EXCEPT !.stage = "plain", !.type = t,
                                   !.payload = d, !.password = pw] :
                    t \in ProviderTypes, d \in Payloads,
                    pw \in CodecPasswords}
                 \cup
                 {[NoCodec EXCEPT !.stage = "plain", !.type = t,
                                   !.payload = d, !.password = pw] :
                    t \in {"webCrypto", "age"}, d \in Payloads,
                    pw \in MissingPasswords}

\* the provider's encrypt runs on the payload
EncryptPayload(saltSeed, ivSeed) ==
    /\ codec.stage = "plain"
    /\ LET r == providerEncrypt(Instance(codec.type, 0), codec.payload,
                                codec.password, saltSeed, ivSeed)
       IN  codec' = [codec EXCEPT
                        !.stage = IF r.ok THEN "encrypted" ELSE "refused",
                        !.enc = r,
                        !.input = r.value,
                        !.intact = r.ok]
    /\ UNCHANGED <<worker, names, normalized, service>>

\* the AEAD container loses its tail before it is submitted again
Truncate(k) ==
    /\ codec.stage = "encrypted"
    /\ codec.type = "webCrypto"
    /\ codec.intact
    /\ k < Len(codec.input)
    /\ codec' = [codec EXCEPT !.input = SubSeq(codec.input, 1, k),
                              !.intact = FALSE]
    /\ UNCHANGED <<worker, names, normalized, service>>

\* the provider's decrypt runs on the container
DecryptContainer(password) ==
    /\ codec.stage = "encrypted"
    /\ codec' = [codec EXCEPT
                    !.stage = "decrypted",
                    !.attempt = password,
                    !.dec = providerDecrypt(Instance(codec.type, 0),
                                            codec.input, password)]
    /\ UNCHANGED <<worker, names, normalized, service>>

NextCodec ==
    \/ \E saltSeed \in RandomSeeds, ivSeed \in RandomSeeds :
          EncryptPayload(saltSeed, ivSeed)
    \/ \E k \in 0..(saltLength + ivLength + tagLength + MaxPayloadLen) :
          Truncate(k)
    \/ \E password \in CodecPasswords : DecryptContainer(password)

SpecCodec == InitCodec /\ [][NextCodec]_vars

(***************************************************************************)
(* The service worker (sw.js): install, activate, message                  *)
(***************************************************************************)
\* number of URLs in the precache list
MaxUrls == 3

\* sw.js:5-64
urlsToCache == {Url("asset", i, "") : i \in 1..MaxUrls}

\* the body the network serves for a URL, and the one a stale cache holds
NetworkResponse(url, status, type) == Response(status, type, "network", url)
StaleEntry ==
    Entry(Url("asset", 1, ""),
          Response(200, "basic", "stale", Url("asset", 1, "")))

\* cache.put(request, response): the entry of the request is replaced
Put(entries, request, response) ==
    {e \in entries : e.request # request} \cup {Entry(request, response)}

\* caches.open(name): the cache is created when there is none
Opened(name) ==
    IF name \in DOMAIN caches THEN caches
    ELSE [n \in DOMAIN caches \cup {name} |->
            IF n = name THEN {} ELSE caches[n]]

\* caches.delete(name)
Deleted(name) == [n \in DOMAIN caches \ {name} |-> caches[n]]

\* a freshly parsed worker script on an origin where earlier versions may
\* have left their caches
InitService ==
    /\ loaderPc = "done"
    /\ rageWasm = "module"
    /\ rageWasmReady = TRUE
    /\ provider = Instance("jsAesCrypt", 0)
    /\ currentProviderType = "jsAesCrypt"
    /\ inflight = EmptyBag
    /\ inbox = <<>>
    /\ instances = 1
    /\ last = NoTask
    /\ names = NoNames
    /\ normalized = {}
    /\ codec = NoCodec
    /\ swState = "parsed"
    /\ \E present \in SUBSET StaleCaches :
          caches = [n \in present |-> {StaleEntry}]
    /\ installEvent = NoInstall
    /\ activateEvent = NoActivate
    /\ skipWaiting = [data |-> NoData, called |-> FALSE]
    /\ fetchEvent = NoFetch
    /\ cacheWrite = NoWrite

\* sw.js:66-69: the install event fires and caches.open is called
InstallStart ==
    /\ swState = "parsed"
    /\ swState' = "installing"
    /\ installEvent' = [NoInstall EXCEPT !.pc = "opening",
                                         !.waitUntil = "pending"]
    /\ UNCHANGED <<worker, names, normalized, codec, caches, activateEvent,
                   skipWaiting, fetchEvent, cacheWrite>>

\* sw.js:70-79: the cache opened; cache.add is called for every URL
InstallOpen ==
    /\ installEvent.pc = "opening"
    /\ caches' = Opened(CACHE_NAME)
    /\ installEvent' = [installEvent EXCEPT !.pc = "adding",
                                            !.pending = urlsToCache]
    /\ UNCHANGED <<worker, names, normalized, codec, swState, activateEvent,
                   skipWaiting, fetchEvent, cacheWrite>>

\* the install handler without its final catch
InstallOpenFailUncaught ==
    /\ installEvent.pc = "opening"
    /\ installEvent' = [installEvent EXCEPT !.pc = "done",
                                            !.waitUntil = "rejected"]
    /\ swState' = "redundant"
    /\ UNCHANGED <<worker, names, normalized, codec, caches, activateEvent,
                   skipWaiting, fetchEvent, cacheWrite>>

\* sw.js:69 and 84-86: caches.open rejected; the final catch logs it
InstallOpenFail ==
    /\ installEvent.pc = "opening"
    /\ installEvent' = [installEvent EXCEPT !.pc = "done",
                                            !.waitUntil = "resolved"]
    /\ swState' = "installed"
    /\ UNCHANGED <<worker, names, normalized, codec, caches, activateEvent,
                   skipWaiting, fetchEvent, cacheWrite>>

\* sw.js:73: cache.add(url) fetched the URL and stored the response
InstallAdd(url) ==
    /\ installEvent.pc = "adding"
    /\ url \in installEvent.pending
    /\ caches' = [Opened(CACHE_NAME) EXCEPT
                     ![CACHE_NAME] =
                         Put(@, url, NetworkResponse(url, 200, "basic"))]
    /\ installEvent' = [installEvent EXCEPT !.pending = @ \ {url},
                                            !.added = @ \cup {url}]
    /\ UNCHANGED <<worker, names, normalized, codec, swState, activateEvent,
                   skipWaiting, fetchEvent, cacheWrite>>

\* sw.js:73-76: cache.add(url) rejected and its catch swallowed the error
InstallAddFail(url) ==
    /\ installEvent.pc = "adding"
    /\ url \in installEvent.pending
    /\ installEvent' = [installEvent EXCEPT !.pending = @ \ {url}]
    /\ UNCHANGED <<worker, names, normalized, codec, swState, caches,
                   activateEvent, skipWaiting, fetchEvent, cacheWrite>>

\* sw.js:79-83: Promise.all resolved, and with it the promise given to
\* event.waitUntil
InstallDone ==
    /\ installEvent.pc = "adding"
    /\ installEvent.pending = {}
    /\ installEvent' = [installEvent EXCEPT !.pc = "done",
                                            !.waitUntil = "resolved"]
    /\ swState' = "installed"
    /\ UNCHANGED <<worker, names, normalized, codec, caches, activateEvent,
                   skipWaiting, fetchEvent, cacheWrite>>

\* sw.js:176-181: the message listener
OnServiceMessage(data) ==
    /\ swState # "parsed"
    /\ skipWaiting' =
           [data |-> data,
            called |-> data.t = "object" /\ data.type = "SKIP_WAITING"]
    /\ UNCHANGED <<worker, names, normalized, codec, swState, caches,
                   installEvent, activateEvent, fetchEvent, cacheWrite>>

\* what a client may post
MessageData ==
    {NoData, Data("object", "SKIP_WAITING"), Data("object", "OTHER"),
     Data("string", "undefined")}

\* sw.js:158-172: the activate event fires; caches.keys() and
\* clients.claim() are called
ActivateStart ==
    /\ swState = "installed"
    /\ swState' = "activating"
    /\ activateEvent' = [NoActivate EXCEPT !.pc = "keys",
                                           !.claim = "pending",
                                           !.waitUntil = "pending"]
    /\ UNCHANGED <<worker, names, normalized, codec, caches, installEvent,
                   skipWaiting, fetchEvent, cacheWrite>>

\* the activate handler deleting every cache it is told of
ActivateKeysAll ==
    /\ activateEvent.pc = "keys"
    /\ activateEvent' = [activateEvent EXCEPT
                            !.pc = "deleting",
                            !.keys = DOMAIN caches,
                            !.deleting = DOMAIN caches]
    /\ UNCHANGED <<worker, names, normalized, codec, swState, caches,
                   installEvent, skipWaiting, fetchEvent, cacheWrite>>

\* sw.js:161-168: caches.keys() resolved; caches.delete is called for
\* every name but CACHE_NAME
ActivateKeys ==
    /\ activateEvent.pc = "keys"
    /\ activateEvent' = [activateEvent EXCEPT
                            !.pc = "deleting",
                            !.keys = DOMAIN caches,
                            !.deleting = DOMAIN caches \ {CACHE_NAME}]
    /\ UNCHANGED <<worker, names, normalized, codec, swState, caches,
                   installEvent, skipWaiting, fetchEvent, cacheWrite>>

\* sw.js:161: caches.keys() rejected
ActivateKeysFail ==
    /\ activateEvent.pc = "keys"
    /\ activateEvent' = [activateEvent EXCEPT !.pc = "deleting",
                                              !.rejected = TRUE]
    /\ UNCHANGED <<worker, names, normalized, codec, swState, caches,
                   installEvent, skipWaiting, fetchEvent, cacheWrite>>

\* sw.js:165: caches.delete(cacheName) removed the cache
ActivateDelete(cacheName) ==
    /\ activateEvent.pc = "deleting"
    /\ cacheName \in activateEvent.deleting
    /\ caches' = Deleted(cacheName)
    /\ activateEvent' = [activateEvent EXCEPT !.deleting = @ \ {cacheName}]
    /\ UNCHANGED <<worker, names, normalized, codec, swState, installEvent,
                   skipWaiting, fetchEvent, cacheWrite>>

\* sw.js:165: caches.delete(cacheName) rejected
ActivateDeleteFail(cacheName) ==
    /\ activateEvent.pc = "deleting"
    /\ cacheName \in activateEvent.deleting
    /\ activateEvent' = [activateEvent EXCEPT !.deleting = @ \ {cacheName},
                                              !.rejected = TRUE]
    /\ UNCHANGED <<worker, names, normalized, codec, swState, caches,
                   installEvent, skipWaiting, fetchEvent, cacheWrite>>

\* sw.js:170: clients.claim() settled
ActivateClaim(ok) ==
    /\ activateEvent.claim = "pending"
    /\ activateEvent' = [activateEvent EXCEPT
                            !.claim = IF ok THEN "resolved" ELSE "rejected",
                            !.rejected = @ \/ ~ok]
    /\ UNCHANGED <<worker, names, normalized, codec, swState, caches,
                   installEvent, skipWaiting, fetchEvent, cacheWrite>>

\* sw.js:159-172: every promise of the outer Promise.all has settled, and
\* with them the promise given to event.waitUntil
ActivateDone ==
    /\ activateEvent.pc = "deleting"
    /\ activateEvent.deleting = {}
    /\ activateEvent.claim # "pending"
    /\ activateEvent' = [activateEvent EXCEPT
                            !.pc = "done",
                            !.waitUntil = IF activateEvent.rejected
                                          THEN "rejected" ELSE "resolved"]
    /\ swState' = "activated"
    /\ UNCHANGED <<worker, names, normalized, codec, caches, installEvent,
                   skipWaiting, fetchEvent, cacheWrite>>

(***************************************************************************)
(* The service worker (sw.js): fetch                                       *)
(***************************************************************************)
\* sw.js:98-100: font files and favicons are matched without their query
shouldIgnoreSearch(url) == url.k \in {"font", "favicon"}

\* Cache matching: only GET requests match, by URL, the query included
\* unless ignoreSearch is set
Matches(cached, request) ==
    /\ request.method = "GET"
    /\ cached.k = request.url.k
    /\ cached.i = request.url.i
    /\ shouldIgnoreSearch(request.url) \/ cached.search = request.url.search

\* sw.js:104: the entries caches.match(request, matchOptions) may return
CacheMatches(request) ==
    {e \in UNION {caches[n] : n \in DOMAIN caches} :
        Matches(e.request, request)}

\* sw.js:146-149
OfflineResponse == Response(200, "default", "offline", NoUrl)

\* sw.js:144-145
acceptsHtml(request) ==
    LET acceptHeader == request.accept
    IN  acceptHeader.t = "string" /\ includes(acceptHeader.v, <<"text/html">>)

\* sw.js:113-125
shouldCache(request, response) ==
    /\ response.status = 200
    /\ request.method = "GET"
    /\ response.type = "basic" \/ response.type = "cors"

\* the requests of a page: a precached asset, a font with and without a
\* version query, a navigation, a form post, a script from the CDN
AcceptHtml == Header(<<"text/html", ",", "*/*">>)
AcceptAny == Header(<<"*/*">>)
FetchRequests ==
    {Request(Url("asset", 1, ""), "GET", AcceptAny),
     Request(Url("font", 0, ""), "GET", AcceptAny),
     Request(Url("font", 0, "?v=2"), "GET", AcceptAny),
     Request(Url("page", 0, ""), "GET", AcceptHtml),
     Request(Url("page", 0, "?v=2"), "GET", NoHeader),
     Request(Url("page", 0, ""), "POST", AcceptHtml),
     Request(Url("cdn", 0, ""), "GET", AcceptAny)}

\* what the network may answer
NetworkOutcomes(request) ==
    IF request.url.k = "cdn"
    THEN {NetworkResponse(request.url, 200, "cors"),
          NetworkResponse(request.url, 0, "opaque")}
    ELSE {NetworkResponse(request.url, 200, "basic"),
          NetworkResponse(request.url, 404, "basic")}

\* an activated worker and the caches install and activate can leave:
\* CACHE_NAME with any part of the precache list, or no CACHE_NAME, and
\* possibly a stale cache whose deletion failed
InitFetch ==
    /\ loaderPc = "done"
    /\ rageWasm = "module"
    /\ rageWasmReady = TRUE
    /\ provider = Instance("jsAesCrypt", 0)
    /\ currentProviderType = "jsAesCrypt"
    /\ inflight = EmptyBag
    /\ inbox = <<>>
    /\ instances = 1
    /\ last = NoTask
    /\ names = NoNames
    /\ normalized = {}
    /\ codec = NoCodec
    /\ swState = "activated"
    /\ \E stale \in SUBSET {CHOOSE n \in StaleCaches : TRUE} :
          \/ caches = [n \in stale |-> {StaleEntry}]
          \/ \E added \in SUBSET urlsToCache :
                caches = [n \in stale \cup {CACHE_NAME} |->
                            IF n = CACHE_NAME
                            THEN {Entry(url, NetworkResponse(url, 200, "basic")) :
                                    url \in added}
                            ELSE {StaleEntry}]
    /\ installEvent = NoInstall
    /\ activateEvent = NoActivate
    /\ skipWaiting = [data |-> NoData, called |-> FALSE]
    /\ fetchEvent = NoFetch
    /\ cacheWrite = NoWrite

\* sw.js:92-110: the fetch event fires and caches.match settles: a cached
\* response is returned, or fetch(request) is called
Fetch(request) ==
    /\ swState = "activated"
    /\ fetchEvent.pc \in {"idle", "done"}
    /\ cacheWrite.pc = "idle"
    /\ \/ \E e \in CacheMatches(request) :
             fetchEvent' = [NoFetch EXCEPT !.pc = "done",
                                          !.request = request,
                                          !.matched = TRUE,
                                          !.respondWith = "resolved",
                                          !.response = e.response]
       \/ /\ CacheMatches(request) = {}
          /\ fetchEvent' = [NoFetch EXCEPT !.pc = "fetching",
                                           !.request = request,
                                           !.fetches = 1]
    /\ UNCHANGED <<worker, names, normalized, codec, swState, caches,
                   installEvent, activateEvent, skipWaiting, cacheWrite>>

\* the fetch handler caching whatever the network answered
FetchResolveCacheAll(response) ==
    /\ fetchEvent.pc = "fetching"
    /\ fetchEvent' = [fetchEvent EXCEPT !.pc = "done",
                                        !.network = response,
                                        !.respondWith = "resolved",
                                        !.response = response]
    /\ cacheWrite' = [pc |-> "opening", request |-> fetchEvent.request,
                      response |-> response]
    /\ UNCHANGED <<worker, names, normalized, codec, swState, caches,
                   installEvent, activateEvent, skipWaiting>>

\* sw.js:110-139: fetch(request) resolved; the response goes to the page
\* and, when it qualifies, a clone goes to the cache
FetchResolve(response) ==
    /\ fetchEvent.pc = "fetching"
    /\ fetchEvent' = [fetchEvent EXCEPT !.pc = "done",
                                        !.network = response,
                                        !.respondWith = "resolved",
                                        !.response = response]
    /\ cacheWrite' = IF shouldCache(fetchEvent.request, response)
                     THEN [pc |-> "opening", request |-> fetchEvent.request,
                           response |-> response]
                     ELSE cacheWrite
    /\ UNCHANGED <<worker, names, normalized, codec, swState, caches,
                   installEvent, activateEvent, skipWaiting>>

\* the fetch handler answering every failed fetch with the offline page
FetchRejectAlwaysOffline ==
    /\ fetchEvent.pc = "fetching"
    /\ fetchEvent' = [fetchEvent EXCEPT !.pc = "done",
                                        !.failed = TRUE,
                                        !.respondWith = "resolved",
                                        !.response = OfflineResponse]
    /\ UNCHANGED <<worker, names, normalized, codec, swState, caches,
                   installEvent, activateEvent, skipWaiting, cacheWrite>>

\* sw.js:140-153: fetch(request) rejected
FetchReject ==
    /\ fetchEvent.pc = "fetching"
    /\ fetchEvent' =
           IF acceptsHtml(fetchEvent.request)
           THEN [fetchEvent EXCEPT !.pc = "done",
                                   !.failed = TRUE,
                                   !.respondWith = "resolved",
                                   !.response = OfflineResponse]
           ELSE [fetchEvent EXCEPT !.pc = "done",
                                   !.failed = TRUE,
                                   !.respondWith = "rejected"]
    /\ UNCHANGED <<worker, names, normalized, codec, swState, caches,
                   installEvent, activateEvent, skipWaiting, cacheWrite>>

\* sw.js:129-131: caches.open(CACHE_NAME) resolved and cache.put is called
CacheWriteOpen ==
    /\ cacheWrite.pc = "opening"
    /\ caches' = Opened(CACHE_NAME)
    /\ cacheWrite' = [cacheWrite EXCEPT !.pc = "putting"]
    /\ fetchEvent' = [fetchEvent EXCEPT !.puts = @ + 1]
    /\ UNCHANGED <<worker, names, normalized, codec, swState, installEvent,
                   activateEvent, skipWaiting>>

\* sw.js:129 and 133-135: caches.open(CACHE_NAME) rejected
CacheWriteOpenFail ==
    /\ cacheWrite.pc = "opening"
    /\ cacheWrite' = NoWrite
    /\ UNCHANGED <<worker, names, normalized, codec, swState, caches,
                   installEvent, activateEvent, skipWaiting, fetchEvent>>

\* sw.js:131: cache.put stored the clone
CachePut ==
    /\ cacheWrite.pc = "putting"
    /\ caches' = [Opened(CACHE_NAME) EXCEPT
                     ![CACHE_NAME] = Put(@, cacheWrite.request.url,
                                         cacheWrite.response)]
    /\ cacheWrite' = NoWrite
    /\ UNCHANGED <<worker, names, normalized, codec, swState, installEvent,
                   activateEvent, skipWaiting, fetchEvent>>

\* sw.js:131: cache.put rejected; nothing awaits it
CachePutFail ==
    /\ cacheWrite.pc = "putting"
    /\ cacheWrite' = NoWrite
    /\ UNCHANGED <<worker, names, normalized, codec, swState, caches,
                   installEvent, activateEvent, skipWaiting, fetchEvent>>

NextFetch ==
    \/ \E request \in FetchRequests : Fetch(request)
    \/ \E response \in NetworkOutcomes(fetchEvent.request) :
          FetchResolve(response)
    \/ FetchReject
    \/ CacheWriteOpen
    \/ CacheWriteOpenFail
    \/ CachePut
    \/ CachePutFail

SpecFetch == InitFetch /\ [][NextFetch]_vars

NextService ==
    \/ InstallStart
    \/ InstallOpen
    \/ InstallOpenFail
    \/ \E url \in urlsToCache : InstallAdd(url)
    \/ \E url \in urlsToCache : InstallAddFail(url)
    \/ InstallDone
    \/ \E data \in MessageData : OnServiceMessage(data)
    \/ ActivateStart
    \/ ActivateKeys
    \/ ActivateKeysFail
    \/ \E cacheName \in activateEvent.deleting : ActivateDelete(cacheName)
    \/ \E cacheName \in activateEvent.deleting :
          ActivateDeleteFail(cacheName)
    \/ \E ok \in BOOLEAN : ActivateClaim(ok)
    \/ ActivateDone

SpecService == InitService /\ [][NextService]_vars

(***************************************************************************)
(* Properties                                                              *)
(***************************************************************************)
\* the failures a provider's encrypt/decrypt can reject a request with
Rejections(op) ==
    {enhanceError(f, IF op.action = "ENCRYPT" THEN "encrypt" ELSE "decrypt") :
        f \in BackendFailures}

\* an ENCRYPT request with valid fields that names no provider
PlainEncrypt(n) == OpMsg("ENCRYPT", Blob, Pw(2), Name(n), Undefined)

\* C1: when setProvider throws (the 'age' backend is not loaded, or the
\* identifier is unknown) the active provider instance and
\* currentProviderType are what they were before the call, on the INIT
\* path and on the ENCRYPT/DECRYPT path, and an ENCRYPT without
\* providerType handled next runs on the previously active provider and,
\* once its backend call resolves, is answered with a Success envelope.
C1_AtomicSwitch ==
    /\ \A t \in ProviderTypes \cup {"bogus"} :
          setProvider(t).threw =>
              /\ setProvider(t).provider = provider
              /\ setProvider(t).currentProviderType = currentProviderType
    /\ (last.task = "message" /\ last.threw) =>
          /\ provider = last.prev
          /\ currentProviderType = last.prevType
          /\ provider.type = currentProviderType
          /\ last.op = NoOp
          /\ last.calls = <<>>
          /\ \A n \in {<<"a">>, <<"a", ".", "b">>} :
                LET r == onmessage(PlainEncrypt(n))
                IN  /\ ~r.threw
                    /\ r.provider = last.prev
                    /\ r.op.on = last.prev
                    /\ r.calls = <<Call(last.prev, "encrypt")>>
                    /\ onFulfilled(r.op).out[1].tag = "ENCRYPT"
                    /\ onFulfilled(r.op).out[1].result
                           = Bytes(last.prev, "ENCRYPT")

\* C1 witness: a request asked for 'age' before the backend was loaded
\* while the AEAD provider was active, and the switch failed
C1_Witness ==
    /\ last.task = "message"
    /\ last.threw
    /\ last.msg.action.s = "ENCRYPT"
    /\ last.msg.providerType = Str("age")
    /\ last.prevType = "webCrypto"
    /\ provider.type = "webCrypto"

\* C2: a request dispatched on provider P completes against P even when
\* the active provider was switched before its promise settled: the
\* reaction calls getInfo / normalizeError on P, the ENCRYPT file name
\* carries P's extension and a failure carries P's user message.
C2_CapturedProvider ==
    last.task \in {"then", "catch"} =>
        /\ \A i \in 1..Len(last.calls) : last.calls[i].on = last.op.on
        /\ (last.task = "then" /\ last.op.action = "ENCRYPT") =>
              last.out[1].fileName
                  = last.op.fileName \o getInfo(last.op.on).fileExtension
        /\ last.task = "catch" =>
              \E e \in Rejections(last.op) :
                  last.out[1].text = normalizeError(last.op.on, e).userMessage

\* the registry and the pending promises are as the last task found them,
\* and the task called no provider method
Untouched ==
    /\ provider = last.prev
    /\ currentProviderType = last.prevType
    /\ last.op = NoOp
    /\ last.calls = <<>>
    /\ ~last.threw

\* the last task was the handler run on a non-empty array
HandledArray ==
    last.task = "message" /\ last.msg.isArray /\ last.msg.length >= 1

\* the last task was the handler run on an ENCRYPT or DECRYPT message
HandledOperation ==
    /\ HandledArray
    /\ last.msg.action.t = "string"
    /\ last.msg.action.s \in {"ENCRYPT", "DECRYPT"}

\* the last task was the handler run on an INIT message
HandledInit ==
    HandledArray /\ last.msg.action = Str("INIT")

\* the field checks in the words of the message protocol
BadFile(m) == m.file # Blob
BadPassword(m) == ~(m.password.t = "string" /\ m.password.len > 0)
BadName(m) ==
    \/ m.fileName.t # "string"
    \/ \E i \in 1..Len(m.fileName.chars) :
          \/ m.fileName.chars[i] \in {"/", "\\"}
          \/ /\ i < Len(m.fileName.chars)
             /\ m.fileName.chars[i] = "."
             /\ m.fileName.chars[i + 1] = "."
Enumerated(v) == v \in {Str("jsAesCrypt"), Str("webCrypto"), Str("age")}
BadProviderType(m) ==
    m.providerType.t # "undefined" /\ ~Enumerated(m.providerType)

\* C3: an array message whose action tag is not "INIT", "ENCRYPT" or
\* "DECRYPT" (a non-string, or another string) is answered with exactly
\* ["ERROR", "Invalid action type", null] and changes no state.
C3_InvalidActionAnswered ==
    (/\ HandledArray
     /\ ~(/\ last.msg.action.t = "string"
          /\ last.msg.action.s \in {"INIT", "ENCRYPT", "DECRYPT"}))
        => /\ last.out = <<ErrorEnv(<<"Invalid", "action", "type">>, JsNull)>>
           /\ Untouched

\* C4: every dispatched request invokes its backend operation once and is
\* answered once: dispatch posts nothing and leaves one pending promise
\* with one invocation; a promise leaves the pending set only in the step
\* that runs its reaction, which posts exactly one envelope, a Success
\* carrying the request's action or an ERROR naming it.
C4_ExactlyOnce ==
    /\ [](/\ \A op \in BagToSet(inflight) : op.n = 1
          /\ (last.task = "message" /\ last.op # NoOp) =>
                /\ last.op.n = 1
                /\ Len(last.calls) = 1
                /\ last.out = <<>>
                /\ BagIn(last.op, inflight)
          /\ last.task = "then" =>
                /\ Len(last.out) = 1
                /\ last.out[1].tag = last.op.action
                /\ last.out[1].result = Bytes(last.op.on, last.op.action)
          /\ last.task = "catch" =>
                /\ Len(last.out) = 1
                /\ last.out[1].tag = "ERROR"
                /\ last.out[1].action = Str(last.op.action))
    /\ [][inflight' # inflight =>
            \/ /\ last'.task = "message"
               /\ inflight' = inflight (+) SetToBag({last'.op})
            \/ /\ last'.task \in {"then", "catch"}
               /\ BagIn(last'.op, inflight)
               /\ inflight' = inflight (-) SetToBag({last'.op})]_vars

\* C4 witness: a request failed and was answered while another request
\* was still pending
C4_Witness ==
    /\ last.task = "catch"
    /\ BagCardinality(inflight) >= 1

\* C5: an ENCRYPT or DECRYPT request with a Blob payload and a non-empty
\* string password whose fileName is not a string or contains "..", "/"
\* or "\" is answered with ["ERROR", "Invalid filename", action] and no
\* provider method is invoked.
C5_FilenameSafety ==
    (/\ HandledOperation
     /\ ~BadFile(last.msg)
     /\ ~BadPassword(last.msg)
     /\ BadName(last.msg))
        => /\ last.out = <<ErrorEnv(<<"Invalid", "filename">>,
                                    last.msg.action)>>
           /\ last.calls = <<>>
           /\ last.op = NoOp

\* C5 witness: a DECRYPT with a backslash in its fileName was rejected
C5_Witness ==
    /\ HandledOperation
    /\ last.msg.action.s = "DECRYPT"
    /\ ~BadFile(last.msg)
    /\ ~BadPassword(last.msg)
    /\ last.msg.fileName = Name(<<"\\", "a">>)
    /\ last.out # <<>>

\* the texts of the validation rejections
ValidationTexts ==
    {<<"Invalid", "message", "format">>, <<"Invalid", "action", "type">>,
     <<"Invalid", "file", "data">>, <<"Invalid", "password">>,
     <<"Invalid", "filename">>, <<"Invalid", "provider", "type">>}

\* the last task rejected its message in a validation step
RejectedByValidation ==
    /\ last.task = "message"
    /\ \/ /\ last.out # <<>>
          /\ last.out[1].tag \in {"ERROR", "INIT_ERROR"}
          /\ last.out[1].text \in ValidationTexts
       \/ /\ HandledArray
          /\ last.msg.action.t = "string"
          /\ last.msg.action.s \notin {"INIT", "ENCRYPT", "DECRYPT"}

\* C6: a message rejected by a validation step leaves the active provider
\* instance and currentProviderType unchanged, constructs nothing and
\* invokes no provider method, also when it names a valid providerType
\* other than the current one.
C6_RejectionsHaveNoEffect ==
    RejectedByValidation => Untouched

\* C6 witness: a request with a bad fileName and providerType 'jsAesCrypt'
\* was rejected while the AEAD provider was active
C6_Witness ==
    /\ RejectedByValidation
    /\ HandledOperation
    /\ last.msg.providerType = Str("jsAesCrypt")
    /\ last.prevType = "webCrypto"
    /\ BadName(last.msg)

\* the message of the first failing check in the order payload, password,
\* fileName, providerType
FirstFailure(m) ==
    IF BadFile(m) THEN <<"Invalid", "file", "data">>
    ELSE IF BadPassword(m) THEN <<"Invalid", "password">>
    ELSE IF BadName(m) THEN <<"Invalid", "filename">>
    ELSE <<"Invalid", "provider", "type">>

\* C7: an ENCRYPT/DECRYPT request with at least one invalid field gets a
\* single ERROR whose text is that of the first failing check in the order
\* payload, password, fileName, providerType and whose third element is
\* the request's action.
C7_OrderedValidation ==
    (/\ HandledOperation
     /\ \/ BadFile(last.msg)
        \/ BadPassword(last.msg)
        \/ BadName(last.msg)
        \/ BadProviderType(last.msg))
        => last.out = <<ErrorEnv(FirstFailure(last.msg), last.msg.action)>>

\* C7 witness: password, fileName and providerType were all invalid and
\* the answer was "Invalid password"
C7_Witness ==
    /\ HandledOperation
    /\ ~BadFile(last.msg)
    /\ BadPassword(last.msg)
    /\ BadName(last.msg)
    /\ BadProviderType(last.msg)
    /\ last.out = <<ErrorEnv(<<"Invalid", "password">>, last.msg.action)>>

\* C8: a message that is not an array, or is an empty array, is answered
\* with exactly ["ERROR", "Invalid message format", null] and nothing else
\* happens.
C8_InvalidFormat ==
    (last.task = "message" /\ (~last.msg.isArray \/ last.msg.length = 0))
        => /\ last.out = <<ErrorEnv(<<"Invalid", "message", "format">>,
                                    JsNull)>>
           /\ Untouched

\* C8 witness: an empty array was rejected after an earlier message had
\* switched the provider
C8_Witness ==
    /\ last.task = "message"
    /\ last.msg = EmptyArray
    /\ last.out # <<>>
    /\ last.prevType = "webCrypto"

\* C9: INIT without providerType selects 'jsAesCrypt' and emits
\* ["INIT_SUCCESS", "jsAesCrypt"]; INIT with a providerType that is not an
\* enumerated identifier emits ["INIT_ERROR", "Invalid provider type"] and
\* leaves the active provider unchanged; INIT never invokes encrypt or
\* decrypt.
C9_InitHandling ==
    HandledInit =>
        /\ last.msg.providerType.t = "undefined" =>
              /\ last.out = <<InitSuccessEnv(Str("jsAesCrypt"))>>
              /\ currentProviderType = "jsAesCrypt"
              /\ provider.type = "jsAesCrypt"
        /\ BadProviderType(last.msg) =>
              /\ last.out = <<InitErrorEnv(<<"Invalid", "provider", "type">>)>>
              /\ provider = last.prev
              /\ currentProviderType = last.prevType
        /\ last.calls = <<>>
        /\ last.op = NoOp

\* a request that passed the four field checks
PassedValidation ==
    /\ HandledOperation
    /\ ~BadFile(last.msg)
    /\ ~BadPassword(last.msg)
    /\ ~BadName(last.msg)
    /\ ~BadProviderType(last.msg)

SwitchFailedText(reason) ==
    <<"Failed", "to", "switch", "provider", ":">> \o reason

\* C11: when the switch an ENCRYPT/DECRYPT request asks for fails, the
\* handler posts exactly ["ERROR", "Failed to switch provider: " + reason,
\* action], calls no provider method and starts no promise, so the set of
\* pending operations (the only source of Success envelopes) is what it
\* was; a validated request naming 'age' while another variant is active
\* and the backend is not loaded always ends this way.
C11_SwitchFailureStops ==
    /\ []((HandledOperation /\ last.threw) =>
             /\ last.out = <<ErrorEnv(SwitchFailedText(AgeNotLoadedText),
                                      last.msg.action)>>
             /\ last.op = NoOp
             /\ last.calls = <<>>
             /\ provider = last.prev
             /\ \A op \in BagToSet(inflight) : op.on.type # "age")
    /\ []((/\ PassedValidation
           /\ last.msg.providerType = Str("age")
           /\ last.prevType # "age"
           /\ ~rageWasmReady) => last.threw)
    /\ [][(last'.task = "message" /\ last'.threw) => inflight' = inflight]_vars

\* C11 witness: a DECRYPT naming 'age' failed to switch while an earlier
\* request was still pending on the legacy provider
C11_Witness ==
    /\ HandledOperation
    /\ last.threw
    /\ last.msg.action.s = "DECRYPT"
    /\ last.prevType = "jsAesCrypt"
    /\ BagCardinality(inflight) >= 1

\* C12: selecting 'age' before the backend is loaded fails with error code
\* BACKEND_UNAVAILABLE: the response names that code, or a provider's
\* normalizeError classifies the reported failure under it.
C12_BackendUnavailable ==
    (/\ last.task = "message"
     /\ last.threw
     /\ last.msg.providerType = Str("age"))
        => \/ includes(last.out[1].text, <<"BACKEND_UNAVAILABLE">>)
           \/ \E t \in ProviderTypes :
                 normalizeError(Instance(t, 0), Err(last.out[1].text)).code
                     = "BACKEND_UNAVAILABLE"

\* the well-formed requests that select a given variant
RequestsFor(type) ==
    {InitMsg(Str(type))}
        \cup {OpMsg(a, Blob, Pw(2), Name(<<"a", ".", "b">>), Str(type)) :
                a \in Operations}

\* the handler's run on m ends in an error envelope and starts nothing
AnsweredWithError(r) ==
    /\ r.threw
    /\ Len(r.out) = 1
    /\ r.out[1].tag \in {"ERROR", "INIT_ERROR"}
    /\ r.op = NoOp
    /\ r.provider = provider
    /\ r.currentProviderType = currentProviderType

\* the handler's run on m, a request selecting type, serves it
Served(m, r, type) ==
    /\ ~r.threw
    /\ r.provider.type = type
    /\ r.currentProviderType = type
    /\ IF m.action.s = "INIT"
       THEN r.out = <<InitSuccessEnv(Str(type))>> /\ r.op = NoOp
       ELSE r.out = <<>> /\ r.op.on = r.provider /\ r.op.action = m.action.s

\* C13: a request selecting 'age' handled while the backend load is
\* pending is answered with an error by that run of the handler and starts
\* nothing; the same request handled after the load succeeded switches to
\* the age provider; requests selecting the legacy or the AEAD variant are
\* served whatever the state of the load.
C13_ReadinessPolled ==
    /\ \A m \in RequestsFor("age") :
          /\ loaderPc \in {"importing", "failed"} =>
                AnsweredWithError(onmessage(m))
          /\ loaderPc = "done" => Served(m, onmessage(m), "age")
    /\ \A type \in {"jsAesCrypt", "webCrypto"} :
          \A m \in RequestsFor(type) : Served(m, onmessage(m), type)
    /\ (/\ last.task = "message"
        /\ last.msg \in RequestsFor("age")
        /\ ~rageWasmReady)
          => /\ last.threw
             /\ Len(last.out) = 1
             /\ last.out[1].tag \in {"ERROR", "INIT_ERROR"}
             /\ last.op = NoOp

\* C13 witness: INIT 'age' was answered with an error while the load was
\* still pending
C13_Witness ==
    /\ last.task = "message"
    /\ last.msg = InitMsg(Str("age"))
    /\ last.threw
    /\ last.out # <<>>
    /\ loaderPc = "importing"

\* C14: setProvider with the current type succeeds and returns the same
\* instance and tag; a handler run that selects the type that is already
\* current (so also the second of two identical selections) constructs
\* nothing and leaves instance and tag as they were.
C14_IdempotentSwitch ==
    /\ [](/\ setProvider(currentProviderType)
                = Switched(provider, currentProviderType)
          /\ (/\ HandledInit
              /\ Enumerated(last.msg.providerType)
              /\ ~last.threw)
                => /\ currentProviderType = last.msg.providerType.s
                   /\ setProvider(last.msg.providerType.s).provider = provider
                   /\ ~setProvider(last.msg.providerType.s).threw)
    /\ [][(/\ last' # last
           /\ last'.task = "message"
           /\ last'.msg.providerType = Str(currentProviderType))
            => /\ provider' = provider
               /\ currentProviderType' = currentProviderType
               /\ instances' = instances
               /\ ~last'.threw]_vars

\* C14 witness: INIT 'webCrypto' was handled while the AEAD provider was
\* already active
C14_Witness ==
    /\ HandledInit
    /\ last.msg.providerType = Str("webCrypto")
    /\ last.prevType = "webCrypto"
    /\ provider = last.prev
    /\ last.out = <<InitSuccessEnv(Str("webCrypto"))>>

\* C15: before any switch the active provider is the legacy one with
\* currentProviderType 'jsAesCrypt'; in every state currentProviderType is
\* an enumerated identifier, the active instance is a constructed provider
\* of exactly that variant, and an age provider is active only when the
\* rage-wasm module is loaded.
C15_DispatchContext ==
    /\ instances = 1 =>
          /\ provider = Instance("jsAesCrypt", 0)
          /\ currentProviderType = "jsAesCrypt"
    /\ currentProviderType \in ProviderTypes
    /\ provider.type = currentProviderType
    /\ provider.id \in 0..(instances - 1)
    /\ currentProviderType = "age" => (rageWasmReady /\ rageWasm = "module")

\* C15 witness: the age provider became active after the AEAD one while a
\* request was pending
C15_Witness ==
    /\ last.task = "message"
    /\ currentProviderType = "age"
    /\ last.prevType = "webCrypto"
    /\ BagCardinality(inflight) >= 1

\* the file extensions of the three formats
Ext(type) ==
    CASE type = "jsAesCrypt" -> <<".", "a", "e", "s">>
      [] type = "webCrypto"  -> <<".", "e", "n", "c">>
      [] type = "age"        -> <<".", "a", "g", "e">>

\* C16: when an ENCRYPT request succeeds and the provider it ran on is
\* still the active one (so in particular when no message was handled
\* while it was pending), the single response is ["ENCRYPT", resultBytes,
\* fileName + ext] with ext the extension of the variant that encrypted:
\* ".aes", ".enc" or ".age".
C16_EncryptFileName ==
    (/\ last.task = "then"
     /\ last.op.action = "ENCRYPT"
     /\ provider = last.op.on)
        => last.out = <<SuccessEnv("ENCRYPT", Bytes(last.op.on, "ENCRYPT"),
                            last.op.fileName \o Ext(last.op.on.type))>>

\* C16 witness: an ENCRYPT that ran on the age provider was answered while
\* that provider was active
C16_Witness ==
    /\ last.task = "then"
    /\ last.op.action = "ENCRYPT"
    /\ provider = last.op.on
    /\ last.op.on.type = "age"
    /\ last.out[1].fileName = <<"a", ".", "b", ".", "a", "g", "e">>

\* a name without its final '.'-delimited suffix; a name without '.' as
\* it is
WithoutSuffix(chars) ==
    IF \A i \in 1..Len(chars) : chars[i] # "." THEN chars
    ELSE LET k == CHOOSE i \in 1..Len(chars) :
                      /\ chars[i] = "."
                      /\ \A j \in (i + 1)..Len(chars) : chars[j] # "."
         IN  SubSeq(chars, 1, k - 1)

\* C17: when a DECRYPT request succeeds the posted file name is the
\* request's fileName without its final '.'-delimited suffix, and a
\* fileName without '.' is posted unchanged.
C17_DecryptFileName ==
    (last.task = "then" /\ last.op.action = "DECRYPT")
        => last.out[1].fileName = WithoutSuffix(last.op.fileName)

\* C18: for every variant and every accepted file name n without a dot,
\* the file encrypted under n comes back as n + extension, that name is
\* accepted by DECRYPT, and the name DECRYPT derives from it is n.
C18_FileNameRoundTrip ==
    (\A i \in 1..Len(names.original) : names.original[i] # ".") =>
        /\ names.stage = "encrypted" =>
              /\ names.encrypted = names.original \o Ext(currentProviderType)
              /\ ENABLED DecryptName
        /\ names.stage = "decrypted" => names.decrypted = names.original

\* C18 witness: the name "ab" went through ENCRYPT and DECRYPT of the age
\* provider
C18_Witness ==
    /\ names.stage = "decrypted"
    /\ names.original = <<"a", "b">>
    /\ names.encrypted = <<"a", "b", ".", "a", "g", "e">>
    /\ currentProviderType = "age"

\* the user messages each provider's normalizeError can return
UserMessages(p) ==
    CASE p.type = "jsAesCrypt" ->
            {IncorrectPasswordMsg, TooLongMsg(p), CorruptedMsg, UnexpectedMsg,
             <<Cross, "This", "file", "is", "not", "a", "valid", "AES",
               "encrypted", "file">>}
      [] p.type = "webCrypto" ->
            {<<Cross, "Incorrect", "password", "or", "corrupted", "file">>,
             <<Cross, "Password", "is", "required">>, TooLongMsg(p),
             <<Cross, "Invalid", "encrypted", "file", "format">>,
             <<Cross, "Encryption", "failed">>,
             <<Cross, "Decryption", "failed">>, UnexpectedMsg}
      [] p.type = "age" ->
            {IncorrectPasswordMsg, CorruptedMsg, UnexpectedMsg,
             <<Cross, "Password", "is", "required">>,
             <<Cross, "This", "file", "is", "not", "a", "valid", "age",
               "encrypted", "file">>}

\* C19: whenever a dispatched encrypt/decrypt fails, the single response
\* is ["ERROR", userMessage, action] with the request's action and with
\* userMessage one of the fixed user messages of the provider that
\* normalized the failure; neither the backend's diagnostic nor the
\* error.message built from it occurs in the response.
C19_NoRawDetail ==
    last.task = "catch" =>
        /\ Len(last.out) = 1
        /\ last.out[1].tag = "ERROR"
        /\ last.out[1].action = Str(last.op.action)
        /\ last.calls = <<Call(provider, "normalizeError")>>
        /\ last.out[1].text \in UserMessages(last.calls[1].on)
        /\ \A f \in BackendFailures :
              ~includes(last.out[1].text, f.message)
        /\ \A e \in Rejections(last.op) :
              ~includes(last.out[1].text, e.message)

\* C19 witness: a DECRYPT on the AEAD provider failed and was answered
\* with that provider's wrong-password message
C19_Witness ==
    /\ last.task = "catch"
    /\ last.op.action = "DECRYPT"
    /\ last.op.on.type = "webCrypto"
    /\ provider = last.op.on
    /\ last.out[1].text
           = <<Cross, "Incorrect", "password", "or", "corrupted", "file">>

\* a user message with the interpolated password bound blanked
Template(userMessage) ==
    IF /\ Len(userMessage) = 7
       /\ SubSeq(userMessage, 1, 5)
              = <<Cross, "Password", "too", "long", "(max">>
    THEN [userMessage EXCEPT ![6] = "N"]
    ELSE userMessage

\* C20: across the three providers' normalizeError, two results with the
\* same code have the same user message template (the password-length
\* messages up to the interpolated bound).
C20_MessagePerCode ==
    \A a, b \in normalized :
        a.result.code = b.result.code
            => Template(a.result.userMessage) = Template(b.result.userMessage)

\* the ErrorCode taxonomy
ErrorCodes ==
    {"WRONG_PASSWORD", "PASSWORD_REQUIRED", "PASSWORD_TOO_LONG",
     "INVALID_FORMAT", "CORRUPTED_DATA", "ENCRYPTION_FAILED",
     "DECRYPTION_FAILED", "BACKEND_UNAVAILABLE", "UNKNOWN_ERROR"}

\* the lower-case phrases each provider's normalizeError looks for
Keywords(type) ==
    CASE type = "jsAesCrypt" ->
            {<<"wrong", "password">>, <<"bad", "hmac">>,
             <<"password", "is", "too", "long">>, <<"corrupted">>,
             <<"tampered">>, <<"not", "an", "aes", "crypt">>,
             <<"invalid", "format">>}
      [] type = "webCrypto" ->
            {<<"wrong", "password">>, <<"corrupted", "data">>,
             <<"password", "is", "required">>, <<"password", "too", "long">>,
             <<"invalid", "format">>, <<"file", "too", "short">>,
             <<"encrypt", "failed">>, <<"decrypt", "failed">>}
      [] type = "age" ->
            {<<"wrong", "password">>, <<"incorrect", "passphrase">>,
             <<"decryption", "failed">>, <<"failed", "to", "decrypt">>,
             <<"invalid">>, <<"format">>,
             <<"not", "an", "age", "encrypted", "file">>, <<"malformed">>,
             <<"corrupted">>, <<"tampered">>,
             <<"password", "is", "required">>}

\* the diagnostic text matches none of the provider's phrases
Unrecognized(type, text) ==
    \A k \in Keywords(type) : ~includes(toLowerCase(text), k)

\* C21: for every provider and every raw failure (an Error, a string,
\* null/undefined, an object without message) normalizeError returns a
\* record whose code is one of the nine ErrorCode values, and a failure
\* whose diagnostic text matches none of the provider's keywords gets
\* code UNKNOWN_ERROR with the message "An unexpected error occurred".
C21_NormalizeTotal ==
    \A r \in normalized :
        /\ r.result.code \in ErrorCodes
        /\ Unrecognized(r.by, r.result.message) =>
              /\ r.result.code = "UNKNOWN_ERROR"
              /\ r.result.userMessage = UnexpectedMsg
        /\ r.result.code = "UNKNOWN_ERROR" =>
              Unrecognized(r.by, r.result.message)

\* C21 witness: the AEAD provider normalized an unrecognized Error and the
\* age provider normalized an object without message
C21_Witness ==
    /\ \E r \in normalized :
          /\ r.by = "webCrypto"
          /\ r.result.message = <<"disk", "exploded">>
          /\ r.result.code = "UNKNOWN_ERROR"
    /\ \E r \in normalized :
          /\ r.by = "age"
          /\ r.result.message = <<"Unknown", "error">>
          /\ r.result.code = "UNKNOWN_ERROR"

\* the password is non-empty and within the variant's bound
WithinBound(type, password) ==
    /\ password.len > 0
    /\ type = "age" \/ password.len <= 1024

\* the code the variant's normalizeError gives a failure
CodeOf(type, error) == normalizeError(Instance(type, 0), error).code

\* C22: for every variant, every payload (the empty one included) and
\* every non-empty password within the variant's bound, encrypt succeeds
\* and decrypt of its output with the same password returns exactly the
\* payload.
C22_PayloadRoundTrip ==
    /\ (/\ codec.stage \in {"encrypted", "refused", "decrypted"}
        /\ WithinBound(codec.type, codec.password)) => codec.enc.ok
    /\ (/\ codec.stage = "decrypted"
        /\ codec.intact
        /\ codec.attempt = codec.password)
          => /\ codec.dec.ok
             /\ codec.dec.value = codec.payload

\* C22 witness: the empty payload went through the AEAD provider under a
\* password of exactly 1024 characters
C22_Witness ==
    /\ codec.stage = "decrypted"
    /\ codec.type = "webCrypto"
    /\ codec.payload = <<>>
    /\ codec.intact
    /\ codec.password.len = 1024
    /\ codec.attempt = codec.password
    /\ codec.dec.ok

\* C23: for every variant, decrypt of encrypt(payload, pw) with another
\* password never resolves; it rejects with a failure that the variant's
\* normalizeError gives code WRONG_PASSWORD.
C23_Authentication ==
    (/\ codec.stage = "decrypted"
     /\ codec.intact
     /\ codec.attempt # codec.password)
        => /\ ~codec.dec.ok
           /\ codec.dec.value = <<>>
           /\ CodeOf(codec.type, codec.dec.error) = "WRONG_PASSWORD"

\* C23 witness: the AEAD container of "hello" under pw123 was decrypted
\* with another password and the tag did not verify
C23_Witness ==
    /\ codec.stage = "decrypted"
    /\ codec.type = "webCrypto"
    /\ codec.intact
    /\ codec.payload = <<"h", "e", "l", "l", "o">>
    /\ codec.password = Password("pw123", 5)
    /\ codec.attempt = Password("wrong", 5)
    /\ codec.dec.error.message
           = <<"decrypt", "failed", ":", "Wrong", "password", "or",
               "corrupted", "data">>

\* C24: AEAD decrypt of an input of 0..27 bytes fails, the failure
\* normalizes to INVALID_FORMAT, and _deriveKey is not invoked.
C24_TruncatedContainer ==
    (/\ codec.stage = "decrypted"
     /\ codec.type = "webCrypto"
     /\ Len(codec.input) \in 0..27)
        => /\ ~codec.dec.ok
           /\ CodeOf("webCrypto", codec.dec.error) = "INVALID_FORMAT"
           /\ \A i \in 1..Len(codec.dec.calls) :
                 codec.dec.calls[i].fn # "_deriveKey"

\* C24 witness: a container cut to 27 bytes was submitted with the right
\* password
C24_Witness ==
    /\ codec.stage = "decrypted"
    /\ codec.type = "webCrypto"
    /\ Len(codec.input) = 27
    /\ codec.attempt = codec.password
    /\ ~codec.dec.ok

\* C25: for a payload of n bytes AEAD encrypt returns 16 + 12 + n + 16
\* bytes: the 16-byte salt it derived the key from, then the 12-byte nonce
\* it encrypted under, then ciphertext with tag (49 bytes for 5); decrypt
\* reads the salt from bytes [0,16), the nonce from [16,28) and the
\* ciphertext from byte 28 on, and derives its key from that salt and the
\* supplied password.
C25_Framing ==
    (codec.type = "webCrypto" /\ codec.enc.ok) =>
        LET out == codec.enc.value
            n == Len(codec.payload)
        IN  /\ Len(out) = 16 + 12 + n + 16
            /\ n = 5 => Len(out) = 49
            /\ \A i \in 1..28 : out[i].k = "random"
            /\ codec.enc.calls[4]
                   = Step("_deriveKey", <<codec.password, SubSeq(out, 1, 16)>>)
            /\ codec.enc.calls[5]
                   = Step("subtle.encrypt",
                          <<SubSeq(out, 17, 28),
                            deriveKey(codec.password, SubSeq(out, 1, 16)),
                            codec.payload>>)
            /\ \A i \in 1..n : out[28 + i].k = "ct"
            /\ \A j \in 1..16 : out[28 + n + j].k = "tag"
            /\ (codec.stage = "decrypted" /\ Len(codec.input) >= 28) =>
                  LET in == codec.input
                  IN  codec.dec.calls
                        = <<Step("_deriveKey",
                                 <<codec.attempt, SubSeq(in, 1, 16)>>),
                            Step("subtle.decrypt",
                                 <<SubSeq(in, 17, 28),
                                   deriveKey(codec.attempt, SubSeq(in, 1, 16)),
                                   SubSeq(in, 29, Len(in))>>)>>

\* C25 witness: "hello" was encrypted to 49 bytes and decrypted again
C25_Witness ==
    /\ codec.stage = "decrypted"
    /\ codec.type = "webCrypto"
    /\ codec.payload = <<"h", "e", "l", "l", "o">>
    /\ Len(codec.enc.value) = 49
    /\ codec.intact
    /\ codec.dec.ok

\* C26: AEAD encrypt with a password of more than 1024 characters fails
\* having taken no step but the password validation, and the failure
\* normalizes to PASSWORD_TOO_LONG with the message naming 1024; a
\* password of exactly 1024 characters is accepted.
C26_PasswordBound ==
    (codec.type = "webCrypto" /\ codec.stage \in {"encrypted", "refused"}) =>
        /\ codec.password.len > 1024 =>
              /\ ~codec.enc.ok
              /\ codec.enc.calls
                     = <<Step("validatePassword", <<codec.password>>)>>
              /\ LET e == normalizeError(Instance("webCrypto", 0),
                                         codec.enc.error)
                 IN  /\ e.code = "PASSWORD_TOO_LONG"
                     /\ e.userMessage
                            = <<Cross, "Password", "too", "long", "(max",
                                "1024", "characters)">>
        /\ codec.password.len = 1024 => codec.enc.ok

\* C26 witness: a password of 1025 characters was refused
C26_Witness ==
    /\ codec.stage = "refused"
    /\ codec.type = "webCrypto"
    /\ codec.password.len = 1025
    /\ ~codec.enc.ok

\* C27: provider-type validation accepts exactly 'jsAesCrypt', 'webCrypto'
\* and 'age': an INIT or (otherwise valid) ENCRYPT/DECRYPT request whose
\* providerType is one of them is not answered "Invalid provider type",
\* and one whose providerType is any other present value is answered
\* "Invalid provider type".
C27_ProviderTypeValidation ==
    /\ (HandledInit /\ last.msg.providerType.t # "undefined") =>
          (last.out = <<InitErrorEnv(<<"Invalid", "provider", "type">>)>>
              <=> ~Enumerated(last.msg.providerType))
    /\ (/\ HandledOperation
        /\ ~BadFile(last.msg)
        /\ ~BadPassword(last.msg)
        /\ ~BadName(last.msg)
        /\ last.msg.providerType.t # "undefined") =>
          (last.out = <<ErrorEnv(<<"Invalid", "provider", "type">>,
                                 last.msg.action)>>
              <=> ~Enumerated(last.msg.providerType))

\* C28: once an operation has been dispatched, and given that its backend
\* call settles, its response is eventually posted; until then it stays
\* pending whatever messages are handled, and it leaves the pending set
\* only in the step that posts its response.
C28_RunToCompletion ==
    /\ \A op \in AllOps :
          BagIn(op, inflight)
              ~> (/\ last.task \in {"then", "catch"}
                  /\ last.op = op
                  /\ Len(last.out) = 1)
    /\ [][\A op \in AllOps :
            CopiesIn(op, inflight') < CopiesIn(op, inflight) =>
                /\ last'.task \in {"then", "catch"}
                /\ last'.op = op
                /\ Len(last'.out) = 1]_vars
    /\ [](\A op \in BagToSet(inflight) : op \in AllOps)

\* C28 witness: an operation dispatched on the legacy provider was
\* answered after the active provider had been switched twice
C28_Witness ==
    /\ last.task \in {"then", "catch"}
    /\ last.op.on = Instance("jsAesCrypt", 0)
    /\ provider.id >= 2
    /\ Len(last.out) = 1

\* C29: while operations are pending the handler still runs on the next
\* message and validates it in full (a malformed message, a bad file
\* name, an INIT and a further request get the outcome they would get on
\* an idle worker), so a later message is answered before an earlier
\* request and several operations are pending at once.
C29_NonBlockingRouter ==
    /\ inflight # EmptyBag =>
          /\ onmessage(EmptyArray).out
                = <<ErrorEnv(<<"Invalid", "message", "format">>, JsNull)>>
          /\ onmessage(OpMsg("ENCRYPT", Blob, Pw(2), Name(<<".", ".">>),
                              Str("webCrypto"))).out
                = <<ErrorEnv(<<"Invalid", "filename">>, Str("ENCRYPT"))>>
          /\ onmessage(InitMsg(Str("webCrypto"))).out
                = <<InitSuccessEnv(Str("webCrypto"))>>
          /\ onmessage(PlainEncrypt(<<"a">>)).op # NoOp
    /\ (/\ last.task = "message"
        /\ last.op = NoOp
        /\ \/ ~HandledArray
           \/ last.msg.action.t # "string"
           \/ last.msg.action.s \in {"INIT", "ENCRYPT", "DECRYPT"})
          => Len(last.out) = 1
    /\ (last.task = "message" /\ last.op # NoOp) => BagIn(last.op, inflight)

\* C29 witness: INIT was answered while two earlier requests were still
\* pending
C29_Witness ==
    /\ last.task = "message"
    /\ last.out = <<InitSuccessEnv(Str("webCrypto"))>>
    /\ BagCardinality(inflight) = 2

\* the variant a handled message asks for
RequestedType(m) ==
    IF Truthy(m.providerType) THEN m.providerType.s ELSE "jsAesCrypt"

C31_OutputNamesReusable ==
    /\ names.stage \in {"encrypted", "decrypted"} =>
          /\ ~hasTraversal(names.encrypted)
          /\ validateOperation(OpMsg("DECRYPT", Blob, Pw(2),
                                     Name(names.encrypted), Undefined)) = <<>>
    /\ (names.stage = "decrypted" /\ names.encrypted # <<>>) =>
          names.decrypted # <<>>

\* C32: rageWasmReady is false until the load settles, is true iff
\* rageWasm is non-null, is never reset, and changes only in the step in
\* which the pending load succeeds (so at most once); after a failed load
\* it is false in every state, setProvider('age') throws, the age variant
\* is never the active one and every request selecting it is answered with
\* an error.
C32_ReadinessMonotone ==
    /\ [](rageWasmReady <=> rageWasm # "null")
    /\ [](loaderPc = "importing" => ~rageWasmReady)
    /\ [][rageWasmReady => rageWasmReady']_vars
    /\ [][rageWasmReady' # rageWasmReady =>
            (loaderPc = "importing" /\ loaderPc' = "done")]_vars
    /\ [][loaderPc = "failed" => loaderPc' = "failed"]_vars
    /\ [](loaderPc = "failed" =>
            /\ ~rageWasmReady
            /\ setProvider("age").threw
            /\ currentProviderType # "age"
            /\ provider.type # "age"
            /\ \A m \in RequestsFor("age") : AnsweredWithError(onmessage(m))
            /\ (last.task = "message" /\ last.msg \in RequestsFor("age")) =>
                  /\ last.threw
                  /\ Len(last.out) = 1
                  /\ last.out[1].tag \in {"ERROR", "INIT_ERROR"})

\* C32 witness: after the load failed a DECRYPT selecting 'age' was
\* answered with the switch failure
C32_Witness ==
    /\ loaderPc = "failed"
    /\ ~rageWasmReady
    /\ last.task = "message"
    /\ last.msg.action.s = "DECRYPT"
    /\ last.msg.providerType = Str("age")
    /\ last.out = <<ErrorEnv(SwitchFailedText(AgeNotLoadedText),
                             Str("DECRYPT"))>>

\* C33: a handler run on an INIT message posts exactly one envelope,
\* INIT_SUCCESS or INIT_ERROR; after ["INIT_SUCCESS", t] the tag
\* currentProviderType is t and the active provider is of variant t; after
\* INIT_ERROR the active provider and the tag are what they were before
\* the message; no other task posts either envelope.
C33_InitOutcome ==
    /\ HandledInit =>
          /\ Len(last.out) = 1
          /\ last.out[1].tag \in {"INIT_SUCCESS", "INIT_ERROR"}
          /\ last.out[1].tag = "INIT_SUCCESS" =>
                /\ last.out[1].providerType.t = "string"
                /\ currentProviderType = last.out[1].providerType.s
                /\ provider.type = last.out[1].providerType.s
          /\ last.out[1].tag = "INIT_ERROR" =>
                /\ provider = last.prev
                /\ currentProviderType = last.prevType
    /\ ~HandledInit =>
          \A i \in 1..Len(last.out) :
              last.out[i].tag \notin {"INIT_SUCCESS", "INIT_ERROR"}

\* C33 witness: INIT 'age' on a worker whose active variant was webCrypto
\* succeeded and left the age provider active
C33_Witness ==
    /\ HandledInit
    /\ last.prevType = "webCrypto"
    /\ last.out = <<InitSuccessEnv(Str("age"))>>
    /\ provider.type = "age"
    /\ currentProviderType = "age"

\* C34: when encrypt of the AEAD or of the age provider is refused by the
\* provider's validatePassword for a missing or empty password,
\* normalizeError of the failure has code PASSWORD_REQUIRED and the user
\* message "[cross] Password is required".
C34_MissingPassword ==
    (/\ codec.stage = "refused"
     /\ codec.type \in {"webCrypto", "age"}
     /\ codec.password \in MissingPasswords)
        => LET e == normalizeError(Instance(codec.type, 0), codec.enc.error)
           IN  /\ e.code = "PASSWORD_REQUIRED"
               /\ e.userMessage = <<Cross, "Password", "is", "required">>

\* C35: once the promise the activate handler gave to waitUntil has
\* resolved, no cache with a name other than CACHE_NAME exists; the cache
\* CACHE_NAME, if it existed when activation began, still exists; and no
\* step of the activate handler creates, deletes or changes CACHE_NAME.
C35_ActivatePurges ==
    /\ [](activateEvent.waitUntil = "resolved" =>
            /\ \A n \in DOMAIN caches : n = CACHE_NAME
            /\ CACHE_NAME \in activateEvent.keys =>
                  CACHE_NAME \in DOMAIN caches)
    /\ [][activateEvent' # activateEvent =>
            /\ (CACHE_NAME \in DOMAIN caches')
                   <=> (CACHE_NAME \in DOMAIN caches)
            /\ CACHE_NAME \in DOMAIN caches =>
                  caches'[CACHE_NAME] = caches[CACHE_NAME]]_vars

\* C35 witness: activation found both stale caches beside CACHE_NAME and
\* left CACHE_NAME alone with its precached entries
C35_Witness ==
    /\ activateEvent.waitUntil = "resolved"
    /\ activateEvent.keys = StaleCaches \cup {CACHE_NAME}
    /\ DOMAIN caches = {CACHE_NAME}
    /\ Cardinality(caches[CACHE_NAME]) >= 2

\* C36: the promise the install handler gives to waitUntil is never
\* rejected and has resolved when the handler is done, whichever
\* cache.add calls fail and even when caches.open fails; every URL whose
\* cache.add succeeded has an entry in CACHE_NAME; no step of the install
\* handler calls skipWaiting, which is called only by the message handler
\* on data whose type is 'SKIP_WAITING'.
C36_InstallTolerant ==
    /\ [](installEvent.waitUntil # "rejected" /\ swState # "redundant")
    /\ [](installEvent.pc = "done" => installEvent.waitUntil = "resolved")
    /\ [](\A url \in installEvent.added :
            /\ CACHE_NAME \in DOMAIN caches
            /\ \E e \in caches[CACHE_NAME] : e.request = url)
    /\ [](skipWaiting.called <=>
            skipWaiting.data = Data("object", "SKIP_WAITING"))
    /\ [][installEvent' # installEvent => skipWaiting' = skipWaiting]_vars

\* C36 witness: installation completed although two of the three URLs
\* could not be cached
C36_Witness ==
    /\ swState = "installed"
    /\ installEvent.waitUntil = "resolved"
    /\ Cardinality(installEvent.added) = 1
    /\ Cardinality(caches[CACHE_NAME]) = 1
    /\ ~skipWaiting.called

\* C37: a request with a cache match is answered with a matching cached
\* response, with no call of fetch and no cache write; a request without
\* one is answered with the very response the network gave; a cache write
\* is started only for a response of status 200 and type 'basic' or 'cors'
\* to a GET request, it changes CACHE_NAME only, and neither its success
\* nor its failure changes what the page received.
C37_CacheFirst ==
    /\ [](fetchEvent.matched =>
            /\ fetchEvent.respondWith = "resolved"
            /\ fetchEvent.fetches = 0
            /\ fetchEvent.puts = 0
            /\ cacheWrite = NoWrite
            /\ \E e \in CacheMatches(fetchEvent.request) :
                  e.response = fetchEvent.response)
    /\ []((fetchEvent.pc = "done" /\ ~fetchEvent.matched /\ ~fetchEvent.failed)
            => /\ fetchEvent.respondWith = "resolved"
               /\ fetchEvent.response = fetchEvent.network
               /\ fetchEvent.response \in NetworkOutcomes(fetchEvent.request))
    /\ []((cacheWrite.pc # "idle" \/ fetchEvent.puts > 0) =>
            /\ fetchEvent.network.status = 200
            /\ fetchEvent.request.method = "GET"
            /\ fetchEvent.network.type \in {"basic", "cors"})
    /\ [][cacheWrite' # cacheWrite /\ fetchEvent.pc = "done" =>
            /\ fetchEvent'.response = fetchEvent.response
            /\ fetchEvent'.respondWith = fetchEvent.respondWith]_vars
    /\ [][caches' # caches =>
            /\ cacheWrite.pc # "idle"
            /\ \A n \in DOMAIN caches :
                  n # CACHE_NAME => (n \in DOMAIN caches' /\ caches'[n] = caches[n])
            /\ \A e \in caches'[CACHE_NAME] :
                  \/ CACHE_NAME \in DOMAIN caches /\ e \in caches[CACHE_NAME]
                  \/ e = Entry(fetchEvent.request.url, fetchEvent.network)]_vars

\* C37 witness: a script from the CDN was not cached, the page received
\* the network's CORS response and the clone was stored in CACHE_NAME
C37_Witness ==
    /\ fetchEvent.pc = "done"
    /\ ~fetchEvent.matched
    /\ fetchEvent.response = NetworkResponse(Url("cdn", 0, ""), 200, "cors")
    /\ fetchEvent.puts = 1
    /\ cacheWrite = NoWrite
    /\ CACHE_NAME \in DOMAIN caches
    /\ Entry(Url("cdn", 0, ""), fetchEvent.response) \in caches[CACHE_NAME]

\* C38: when there is no cache match and fetch fails, a request whose
\* Accept header contains 'text/html' is answered with the synthetic
\* Offline response, and for any other request the promise given to
\* respondWith is rejected with no response; no cache write is started and
\* the Offline response is in no cache.
C38_OfflineFallback ==
    /\ fetchEvent.failed =>
          /\ ~fetchEvent.matched
          /\ fetchEvent.fetches = 1
          /\ acceptsHtml(fetchEvent.request) =>
                /\ fetchEvent.respondWith = "resolved"
                /\ fetchEvent.response = OfflineResponse
          /\ ~acceptsHtml(fetchEvent.request) =>
                /\ fetchEvent.respondWith = "rejected"
                /\ fetchEvent.response = NoResponse
          /\ fetchEvent.puts = 0
          /\ cacheWrite = NoWrite
    /\ \A n \in DOMAIN caches : OfflineResponse \notin {e.response : e \in caches[n]}

\* C38 witness: a navigation failed offline and was answered with the
\* Offline page while CACHE_NAME held other entries
C38_Witness ==
    /\ fetchEvent.failed
    /\ fetchEvent.request = Request(Url("page", 0, ""), "GET", AcceptHtml)
    /\ fetchEvent.response = OfflineResponse
    /\ CACHE_NAME \in DOMAIN caches
    /\ caches[CACHE_NAME] # {}

====
